---- MODULE Spec2Model ----
(***************************************************************************)
(* Model of the per-mailbox sync engine of runt (src/src/syncdir.rs) with  *)
(* its cache (src/src/cache), IMAP adapter (src/src/imapw.rs) and Maildir  *)
(* adapter (src/src/maildirw.rs).                                          *)
(*                                                                         *)
(* The IMAP server and the Maildir directory are the environment: their    *)
(* contents change through the engine's calls and through external actors  *)
(* (other mail clients, the user).  Every call the engine makes can fail;  *)
(* a failure is a nondeterministic choice of the failing call.             *)
(***************************************************************************)
EXTENDS Integers, Sequences, FiniteSets, TLC

\* ---------------------------------------------------------------- bounds
MaxUid == 4        \* UIDs the server can assign within one epoch
MaxId == 5         \* Maildir IDs that can be live at the same time
MaxExt == 1        \* external changes (server or Maildir) in one behaviour
MaxFail == 1       \* failing calls in one behaviour
MaxBody == 3       \* distinct message bodies in one behaviour
MaxModSeq == 12    \* server mod-sequence values in one behaviour
MaxChan == 2       \* messages that the channel of the engine holds at the same time
MaxFlags == 5      \* letters of a flag string and flags of an IMAP flag list
MaxCalls == 4      \* calls on the cache database in one behaviour

UIDs == 1..MaxUid
IDs == 1..MaxId

\* ------------------------------------------------- flag set (syncflags.rs)
NoFlag == "NoFlag"
FlagValue == <<"Draft", "Flagged", "Replied", "Seen", "Trashed">>
ImapFlag == <<"Draft", "Flagged", "Answered", "Seen", "Deleted">>
FlagLetter == <<"D", "F", "R", "S", "T">>

RangeOf(s) == {s[k] : k \in 1..Len(s)}


\* impl From<&str> for SyncFlags: each known letter sets its slot
SyncFlagsFromStr(s) ==
    [i \in 1..5 |-> IF FlagLetter[i] \in RangeOf(s) THEN FlagValue[i] ELSE NoFlag]

\* impl From<&[Flag]> for SyncFlags with the slots of Flagged and Answered
\* taken for each other
SyncFlagsFromImapSwapped(fl) ==
    [i \in 1..5 |-> IF ImapFlag[i] \in fl
                    THEN FlagValue[CASE i = 2 -> 3 [] i = 3 -> 2 [] OTHER -> i] ELSE NoFlag]

\* impl From<&[Flag]> for SyncFlags: each known IMAP flag sets its slot
SyncFlagsFromImap(fl) ==
    [i \in 1..5 |-> IF ImapFlag[i] \in fl THEN FlagValue[i] ELSE NoFlag]

\* the letter pushed for one slot value by to_string
LetterOf(v) ==
    CASE v = "Draft" -> <<"D">>
      [] v = "Flagged" -> <<"F">>
      [] v = "Replied" -> <<"R">>
      [] v = "Seen" -> <<"S">>
      [] v = "Trashed" -> <<"T">>
      [] OTHER -> <<>>

\* impl ToString for SyncFlags: the letters of the slots, in slot order
SyncFlagsToString(sf) ==
    LetterOf(sf[1]) \o LetterOf(sf[2]) \o LetterOf(sf[3]) \o LetterOf(sf[4]) \o LetterOf(sf[5])

\* SyncFlags::contains
SyncFlagsContains(sf, v) == \E i \in 1..5 : sf[i] = v

\* SyncFlags::diff with the two arms of the match taken for each other
SyncFlagsDiffSwapped(self, other) ==
    [add |-> [i \in 1..5 |-> IF self[i] # NoFlag /\ other[i] = NoFlag THEN self[i] ELSE NoFlag],
     sub |-> [i \in 1..5 |-> IF self[i] = NoFlag /\ other[i] # NoFlag THEN other[i] ELSE NoFlag]]

\* SyncFlags::diff
SyncFlagsDiff(self, other) ==
    [add |-> [i \in 1..5 |-> IF self[i] = NoFlag /\ other[i] # NoFlag THEN other[i] ELSE NoFlag],
     sub |-> [i \in 1..5 |-> IF self[i] # NoFlag /\ other[i] = NoFlag THEN self[i] ELSE NoFlag]]

\* SyncFlags::empty
SyncFlagsEmpty(sf) == \A i \in 1..5 : sf[i] = NoFlag

\* SyncFlags::as_imap_flags: the IMAP flag pushed for each slot value; the
\* empty set stands for None
AsImapFlags(sf) ==
    LET ImapOf(v) ==
            CASE v = "Draft" -> {"Draft"}
              [] v = "Flagged" -> {"Flagged"}
              [] v = "Replied" -> {"Answered"}
              [] v = "Seen" -> {"Seen"}
              [] v = "Trashed" -> {"Deleted"}
              [] OTHER -> {}
    IN UNION {ImapOf(sf[i]) : i \in 1..5}

\* cache::maildir_flags_from_imap
MaildirFlagsFromImap(fl) == SyncFlagsToString(SyncFlagsFromImap(fl))

\* ------------------------------------------------------------ data values
NoMsg == [body |-> 0]      \* no message under this UID on the server
NoFile == [body |-> 0]     \* no file under this ID in the Maildir
NoRow == [uid |-> 0]       \* no cache row for this UID

\* RFC822.SIZE of a body / length of the file that holds it
Size(b) == b

\* the (UID RFC822.SIZE INTERNALDATE FLAGS) answer of the server for one UID
FetchOf(msgs, uid) ==
    [uid |-> uid, size |-> Size(msgs[uid].body), date |-> msgs[uid].date,
     flags |-> msgs[uid].flags, body |-> msgs[uid].body]

SrvBodies(msgs) == {msgs[u].body : u \in {v \in UIDs : msgs[v] # NoMsg}}
MdirBodies(m) == {m[i].body : i \in {j \in IDs : m[j] # NoFile}}

\* ------------------------------------------- message metadata (messagemeta.rs)
\* MessageMeta::new
MessageMetaNew(id, size, flags, uid, date) ==
    [uid |-> uid, id |-> id, size |-> size, date |-> date, flags |-> flags]

\* MessageMeta::flags_equal
FlagsEqual(meta, fl) ==
    LET d == SyncFlagsDiff(meta.flags, SyncFlagsFromImap(fl))
    IN SyncFlagsEmpty(d.add) /\ SyncFlagsEmpty(d.sub)

\* MessageMeta::is_equal
IsEqual(meta, fetch) ==
    /\ meta.size = fetch.size
    /\ meta.uid = fetch.uid
    /\ meta.date = fetch.date
    /\ FlagsEqual(meta, fetch.flags)

\* MessageMeta::needs_refetch that looks at the size only
NeedsRefetchSizeOnly(meta, fetch) == meta.size # fetch.size

\* MessageMeta::needs_refetch
NeedsRefetch(meta, fetch) == meta.size # fetch.size \/ meta.date # fetch.date

\* MessageMeta::needs_move_from_new_to_cur
NeedsMoveFromNewToCur(meta, fetch) ==
    ~SyncFlagsContains(meta.flags, "Seen") /\ "Seen" \in fetch.flags

\* MessageMeta::update
MessageMetaUpdate(meta, fetch) ==
    [meta EXCEPT !.flags = SyncFlagsFromImap(fetch.flags),
                 !.size = fetch.size, !.date = fetch.date]

\* ------------------------------------------------------------------ state
VARIABLES
    srv,      \* the IMAP mailbox: msgs, uid_validity, uid_next, highest_mod_seq, vanished
    mdir,     \* the Maildir: ID -> file (body, flag string, in new/ or cur/)
    cache,    \* the cache: rows (UID -> MessageMeta) and state (StateFile fields)
    eng,      \* the engine: position in do_sync and the locals of the running cycle
    ev,       \* what the last step of the engine did (call, arguments, outcome, IMAP commands)
    hist,     \* history: counters of external changes and failures, provenance of bodies
    life      \* the SyncDir around the cycles: channel, helper threads, result of sync()

vars == <<srv, mdir, cache, eng, ev, hist, life>>

\* ----------------------------------------------------- results of engine calls
\* With([x \in {v} |-> e]) is e for x = v: the value v of a call is taken once
\* and the calls after it use it under the name x
With(fn) == CHOOSE r \in {g[CHOOSE x \in DOMAIN g : TRUE] : g \in {fn}} : TRUE

\* L is the local side [rows, mdir, st]; ok is the Result; hit says the injected
\* failure was reached; stuck says a bound of the model was hit.
Res(L, ok, hit) == [L |-> L, ok |-> ok, hit |-> hit, stuck |-> FALSE]
Stuck(L) == [L |-> L, ok |-> FALSE, hit |-> FALSE, stuck |-> TRUE]

Local == [rows |-> cache.rows, mdir |-> mdir, st |-> cache.state]

\* the ID the Maildir gives to the next stored file: IDs are opaque and only
\* compared for equality, so the smallest ID that nobody holds, and that no
\* file and no row had when the running step began, stands for a new one
FreeIds(L) ==
    {i \in IDs : /\ L.mdir[i] = NoFile
                 /\ mdir[i] = NoFile
                 /\ \A u \in UIDs : cache.rows[u] = NoRow \/ cache.rows[u].id # i
                 /\ \A u \in UIDs : L.rows[u] = NoRow \/ L.rows[u].id # i
                 /\ i \notin RangeOf(eng.changed) \cup RangeOf(eng.new) \cup eng.old}
FreshId(L) == CHOOSE i \in FreeIds(L) : \A j \in FreeIds(L) : i <= j

\* ---------------------------------------------------------- cache (cache/mod.rs)
\* Cache::is_valid
IsValid(st, mbox) == st.uid_validity = mbox.uid_validity

\* Cache::get_known_uids: the rows with 0 < uid <= last_seen_uid
GetKnownUids(L) == {u \in UIDs : L.rows[u] # NoRow /\ u > 0 /\ u <= L.st.last_seen_uid}

\* Cache::add_uid with a slip: the high-water mark follows every insert
CacheAddAlwaysSets(L, id, fetch, f) ==
    LET uid == fetch.uid
        meta == MessageMetaNew(id, fetch.size, SyncFlagsFromImap(fetch.flags), uid, fetch.date)
    IN IF L.rows[uid] # NoRow THEN Res(L, FALSE, FALSE)
       ELSE IF f = "add" THEN Res(L, FALSE, TRUE)
       ELSE Res([L EXCEPT !.rows[uid] = meta, !.st.last_seen_uid = uid], f # "statesave", f = "statesave")

\* Cache::add_uid with a slip: the high-water mark is raised before the row is
\* saved, so it is raised also when the row cannot be saved
CacheAddRaisesFirst(L, id, fetch, f) ==
    LET uid == fetch.uid
        meta == MessageMetaNew(id, fetch.size, SyncFlagsFromImap(fetch.flags), uid, fetch.date)
        L0 == IF uid > L.st.last_seen_uid THEN [L EXCEPT !.st.last_seen_uid = uid] ELSE L
    IN IF L.rows[uid] # NoRow THEN Res(L, FALSE, FALSE)
       ELSE IF f = "add" THEN Res(L0, FALSE, TRUE)
       ELSE Res([L0 EXCEPT !.rows[uid] = meta], TRUE, FALSE)

\* Cache::add_uid that writes over the row of a UID that has one
CacheAddReplaces(L, id, fetch, f) ==
    LET uid == fetch.uid
        meta == MessageMetaNew(id, fetch.size, SyncFlagsFromImap(fetch.flags), uid, fetch.date)
        L1 == [L EXCEPT !.rows[uid] = meta]
    IN IF f = "add" THEN Res(L, FALSE, TRUE)
       ELSE IF uid > L.st.last_seen_uid
            THEN Res([L1 EXCEPT !.st.last_seen_uid = uid], f # "statesave", f = "statesave")
            ELSE Res(L1, TRUE, FALSE)

\* Cache::add_uid (called as cache.add by the engine): fails when the UID has
\* a row or the row cannot be saved; raises last_seen_uid after the row is saved
CacheAdd(L, id, fetch, f) ==
    LET uid == fetch.uid
        meta == MessageMetaNew(id, fetch.size, SyncFlagsFromImap(fetch.flags), uid, fetch.date)
        L1 == [L EXCEPT !.rows[uid] = meta]
    IN IF L.rows[uid] # NoRow THEN Res(L, FALSE, FALSE)
       ELSE IF f = "add" THEN Res(L, FALSE, TRUE)
       ELSE IF uid > L.st.last_seen_uid
            THEN Res([L1 EXCEPT !.st.last_seen_uid = uid], f # "statesave", f = "statesave")
            ELSE Res(L1, TRUE, FALSE)

\* Cache::update_uid (called as cache.update by the engine)
CacheUpdate(L, fetch, f) ==
    IF L.rows[fetch.uid] = NoRow THEN Res(L, FALSE, FALSE)
    ELSE IF f = "update" THEN Res(L, FALSE, TRUE)
    ELSE Res([L EXCEPT !.rows[fetch.uid] = MessageMetaUpdate(L.rows[fetch.uid], fetch)], TRUE, FALSE)

\* Cache::delete_uid
CacheDeleteUid(L, uid, f) ==
    IF L.rows[uid] = NoRow THEN Res(L, FALSE, FALSE)
    ELSE IF f = "cdel" THEN Res(L, FALSE, TRUE)
    ELSE Res([L EXCEPT !.rows[uid] = NoRow], TRUE, FALSE)

\* ----------------------------------------------------- Maildir (maildirw.rs)
\* Maildir::save_message: cur/ with the flags when they contain S, else new/
MaildirSave(L, body, flags, f) ==
    IF f = "save" THEN Res(L, FALSE, TRUE)
    ELSE IF FreeIds(L) = {} THEN Stuck(L)
    ELSE LET file == IF "S" \in RangeOf(flags)
                     THEN [body |-> body, flags |-> flags, innew |-> FALSE]
                     ELSE [body |-> body, flags |-> <<>>, innew |-> TRUE]
         IN Res([L EXCEPT !.mdir[FreshId(L)] = file], TRUE, FALSE)

\* Maildir::delete_message
MaildirDelete(L, id, f) ==
    IF L.mdir[id] = NoFile THEN Res(L, FALSE, FALSE)
    ELSE IF f = "mdel" THEN Res(L, FALSE, TRUE)
    ELSE Res([L EXCEPT !.mdir[id] = NoFile], TRUE, FALSE)

\* Maildir::message_is_in_new
MessageIsInNew(L, id) == L.mdir[id] # NoFile /\ L.mdir[id].innew

\* Maildir::move_message_to_cur
MaildirMoveToCur(L, id, flags, f) ==
    IF L.mdir[id] = NoFile \/ ~L.mdir[id].innew THEN Res(L, FALSE, FALSE)
    ELSE IF f = "move" THEN Res(L, FALSE, TRUE)
    ELSE Res([L EXCEPT !.mdir[id].flags = flags, !.mdir[id].innew = FALSE], TRUE, FALSE)

\* Maildir::set_flags_for_message: renames the file in cur/
MaildirSetFlags(L, id, flags, f) ==
    IF L.mdir[id] = NoFile \/ L.mdir[id].innew THEN Res(L, FALSE, FALSE)
    ELSE IF f = "setflags" THEN Res(L, FALSE, TRUE)
    ELSE Res([L EXCEPT !.mdir[id].flags = flags], TRUE, FALSE)

\* --------------------------------------- per-message engine calls (syncdir.rs)
\* SyncDir::delete_message_from_maildir that returns the error of the Maildir
\* delete instead of going on to the cache row
DeleteMessageFromMaildirStrict(L, uid, f) ==
    IF f = "get" THEN Res(L, FALSE, TRUE)
    ELSE IF L.rows[uid] = NoRow THEN Res(L, TRUE, FALSE)
    ELSE LET d == MaildirDelete(L, L.rows[uid].id, f)
             c == CacheDeleteUid(d.L, uid, f)
         IN IF ~d.ok THEN d ELSE c

\* SyncDir::delete_message_from_maildir
DeleteMessageFromMaildir(L, uid, f) ==
    IF f = "get" THEN Res(L, FALSE, TRUE)
    ELSE IF L.rows[uid] = NoRow THEN Res(L, TRUE, FALSE)
    ELSE With([d \in {MaildirDelete(L, L.rows[uid].id, f)} |->
         With([c \in {CacheDeleteUid(d.L, uid, f)} |->
         [c EXCEPT !.hit = d.hit \/ c.hit]])])

\* SyncDir::save_message_in_maildir that goes on to cache.add whatever the
\* store has answered
SaveMessageInMaildirIgnoresStore(L, fetch, f) ==
    IF FreeIds(L) = {} THEN Stuck(L)
    ELSE LET s == IF f = "nobody" THEN Res(L, FALSE, TRUE)
                  ELSE MaildirSave(L, fetch.body, MaildirFlagsFromImap(fetch.flags), f)
             a == CacheAdd(s.L, FreshId(L), fetch, f)
         IN [a EXCEPT !.ok = s.ok /\ a.ok, !.hit = s.hit \/ a.hit]

\* SyncDir::save_message_in_maildir that calls cache.add before the store
SaveMessageInMaildirAddsFirst(L, fetch, f) ==
    IF f = "nobody" THEN Res(L, FALSE, TRUE)
    ELSE IF FreeIds(L) = {} THEN Stuck(L)
    ELSE LET a == CacheAdd(L, FreshId(L), fetch, f)
             s == MaildirSave(a.L, fetch.body, MaildirFlagsFromImap(fetch.flags), f)
         IN IF ~a.ok THEN a ELSE [s EXCEPT !.hit = a.hit \/ s.hit]

\* SyncDir::save_message_in_maildir
SaveMessageInMaildir(L, fetch, f) ==
    IF f = "nobody" THEN Res(L, FALSE, TRUE)
    ELSE With([s \in {MaildirSave(L, fetch.body, MaildirFlagsFromImap(fetch.flags), f)} |->
         IF ~s.ok THEN s
         ELSE With([a \in {CacheAdd(s.L, FreshId(L), fetch, f)} |->
              [a EXCEPT !.hit = s.hit \/ a.hit]])])

\* SyncDir::cache_message_for_uid: FETCH with BODY.PEEK[], then save each answer
CacheMessageForUid(L, msgs, uid, f) ==
    IF f = "fetch" THEN Res(L, FALSE, TRUE)
    ELSE IF msgs[uid] = NoMsg THEN Res(L, TRUE, FALSE)
    ELSE SaveMessageInMaildir(L, FetchOf(msgs, uid), f)

\* SyncDir::update_cache_for_uid that updates the row and leaves the flags of
\* the file alone
UpdateCacheForUidKeepsFile(L, msgs, meta, uidres, f) ==
    IF IsEqual(meta, uidres) THEN Res(L, TRUE, FALSE)
    ELSE IF NeedsRefetch(meta, uidres)
    THEN With([d \in {DeleteMessageFromMaildir(L, meta.uid, f)} |->
         IF ~d.ok THEN d
         ELSE With([c \in {CacheMessageForUid(d.L, msgs, meta.uid, f)} |->
              [c EXCEPT !.hit = d.hit \/ c.hit]])])
    ELSE CacheUpdate(L, uidres, f)

\* SyncDir::update_cache_for_uid
UpdateCacheForUid(L, msgs, meta, uidres, f) ==
    IF IsEqual(meta, uidres) THEN Res(L, TRUE, FALSE)
    ELSE IF NeedsRefetch(meta, uidres)
    THEN With([d \in {DeleteMessageFromMaildir(L, meta.uid, f)} |->
         IF ~d.ok THEN d
         ELSE With([c \in {CacheMessageForUid(d.L, msgs, meta.uid, f)} |->
              [c EXCEPT !.hit = d.hit \/ c.hit]])])
    ELSE With([u \in {CacheUpdate(L, uidres, f)} |->
         LET newflags == SyncFlagsToString(u.L.rows[uidres.uid].flags)
         IN IF ~u.ok THEN u
            ELSE IF NeedsMoveFromNewToCur(meta, uidres)
            THEN IF f = "isnew" THEN Res(u.L, FALSE, TRUE)
                 ELSE IF MessageIsInNew(u.L, meta.id)
                 THEN MaildirMoveToCur(u.L, meta.id, newflags, f)
                 ELSE MaildirSetFlags(u.L, meta.id, newflags, f)
            ELSE MaildirSetFlags(u.L, meta.id, newflags, f)])

\* the body of the loop of SyncDir::cache_uids_from_imap for one UidResult:
\* a row that cannot be read counts as a row that is not there
CacheOrUpdate(L, msgs, uidres, f) ==
    IF L.rows[uidres.uid] # NoRow /\ f # "lookup"
    THEN UpdateCacheForUid(L, msgs, L.rows[uidres.uid], uidres, f)
    ELSE LET c == CacheMessageForUid(L, msgs, uidres.uid, f)
         IN [c EXCEPT !.hit = c.hit \/ (f = "lookup" /\ L.rows[uidres.uid] # NoRow)]

\* the calls that can fail while one UidResult is reconciled
CacheFails == {"none", "lookup", "get", "mdel", "cdel", "fetch", "nobody", "save",
               "add", "statesave", "update", "isnew", "move", "setflags"}
\* the calls that can fail in delete_message_from_maildir
DeleteFails == {"none", "get", "mdel", "cdel"}

\* ------------------------------------------------------ IMAP server (imapw.rs)
\* S is the mailbox [msgs, uid_validity, uid_next, highest_mod_seq, vanished];
\* cmds is the sequence of commands that reached the server.
SRes(S, ok, hit, cmds) == [S |-> S, ok |-> ok, hit |-> hit, stuck |-> FALSE, cmds |-> cmds]
SStuck(S) == [S |-> S, ok |-> FALSE, hit |-> FALSE, stuck |-> TRUE, cmds |-> <<>>]

SortedSeq(set) ==
    [k \in 1..Cardinality(set) |-> CHOOSE u \in set : Cardinality({v \in set : v < u}) = k - 1]

Present(S) == {u \in UIDs : S.msgs[u] # NoMsg}

\* UID STORE +FLAGS / -FLAGS as the server executes it
SrvStore(S, uid, add, sub) ==
    IF S.msgs[uid] = NoMsg THEN S
    ELSE [S EXCEPT !.highest_mod_seq = @ + 1,
                   !.msgs[uid].modseq = S.highest_mod_seq + 1,
                   !.msgs[uid].flags = (@ \cup add) \ sub]

\* UID EXPUNGE as the server executes it: removes the UID when it is \Deleted
SrvExpunge(S, uid) ==
    IF S.msgs[uid] = NoMsg \/ "Deleted" \notin S.msgs[uid].flags THEN S
    ELSE [S EXCEPT !.highest_mod_seq = @ + 1,
                   !.msgs[uid] = NoMsg,
                   !.vanished = @ \cup {[uid |-> uid, modseq |-> S.highest_mod_seq + 1]}]

\* APPEND as the server executes it: the next UID, the date of the append
SrvAppend(S, body, flags) ==
    [S EXCEPT !.highest_mod_seq = @ + 1,
              !.uid_next = @ + 1,
              !.msgs[S.uid_next] = [body |-> body, date |-> S.uid_validity,
                                    flags |-> flags \ {"Recent"},
                                    modseq |-> S.highest_mod_seq + 1]]

\* Imap::add_flags_for_uid
ImapAddFlags(S, uid, flags, f) ==
    IF f = "addflags" THEN SRes(S, FALSE, TRUE, <<>>)
    ELSE IF S.highest_mod_seq >= MaxModSeq THEN SStuck(S)
    ELSE SRes(SrvStore(S, uid, flags, {}), TRUE, FALSE, <<[cmd |-> "STORE+", uid |-> uid, flags |-> flags]>>)

\* Imap::remove_flags_for_uid
ImapRemoveFlags(S, uid, flags, f) ==
    IF f = "subflags" THEN SRes(S, FALSE, TRUE, <<>>)
    ELSE IF S.highest_mod_seq >= MaxModSeq THEN SStuck(S)
    ELSE SRes(SrvStore(S, uid, {}, flags), TRUE, FALSE, <<[cmd |-> "STORE-", uid |-> uid, flags |-> flags]>>)

\* Imap::delete_uid: STORE +FLAGS (\Deleted), then UID EXPUNGE
ImapDeleteUid(S, uid, f) ==
    LET S1 == SrvStore(S, uid, {"Deleted"}, {})
        c1 == <<[cmd |-> "STORE+", uid |-> uid, flags |-> {"Deleted"}]>>
    IN IF f = "store" THEN SRes(S, FALSE, TRUE, <<>>)
       ELSE IF S.highest_mod_seq + 2 > MaxModSeq THEN SStuck(S)
       ELSE IF f = "expunge" THEN SRes(S1, FALSE, TRUE, c1)
       ELSE SRes(SrvExpunge(S1, uid), TRUE, FALSE, c1 \o <<[cmd |-> "EXPUNGE", uid |-> uid, flags |-> {}]>>)

\* Imap::append
ImapAppend(S, body, flags, f) ==
    IF f = "append" THEN SRes(S, FALSE, TRUE, <<>>)
    ELSE IF S.uid_next > MaxUid \/ S.highest_mod_seq >= MaxModSeq THEN SStuck(S)
    ELSE SRes(SrvAppend(S, body, flags), TRUE, FALSE, <<[cmd |-> "APPEND", uid |-> S.uid_next, flags |-> flags]>>)

\* Imap::replace_uid that appends the new body without the flags of the old UID
ImapReplaceUidNoFlags(S, uid, body, f) ==
    IF f = "fetchmeta" THEN SRes(S, FALSE, TRUE, <<>>)
    ELSE IF S.msgs[uid] = NoMsg THEN SRes(S, FALSE, FALSE, <<>>)
    ELSE LET a == ImapAppend(S, body, {}, f)
             d == ImapDeleteUid(a.S, uid, f)
         IN IF ~a.ok THEN a ELSE [d EXCEPT !.cmds = a.cmds \o d.cmds]

\* Imap::replace_uid with the two commands swapped: the old UID is deleted
\* before the new body is appended
ImapReplaceUidDeleteFirst(S, uid, body, f) ==
    IF f = "fetchmeta" THEN SRes(S, FALSE, TRUE, <<>>)
    ELSE IF S.msgs[uid] = NoMsg THEN SRes(S, FALSE, FALSE, <<>>)
    ELSE LET d == ImapDeleteUid(S, uid, f)
             a == ImapAppend(d.S, body, S.msgs[uid].flags, f)
         IN IF ~d.ok THEN d ELSE [a EXCEPT !.cmds = d.cmds \o a.cmds]

\* Imap::replace_uid: fetch the flags, APPEND the new body, delete the old UID
ImapReplaceUid(S, uid, body, f) ==
    IF f = "fetchmeta" THEN SRes(S, FALSE, TRUE, <<>>)
    ELSE IF S.msgs[uid] = NoMsg THEN SRes(S, FALSE, FALSE, <<>>)
    ELSE LET a == ImapAppend(S, body, S.msgs[uid].flags, f)
             d == ImapDeleteUid(a.S, uid, f)
         IN IF ~a.ok THEN a ELSE [d EXCEPT !.cmds = a.cmds \o d.cmds]

\* Imap::fetch_uids: the answer of UID FETCH first:last (last = 0 stands for *)
\* with the optional CHANGEDSINCE; n:* always names the highest UID in use
FetchUids(S, first, last, changedsince) ==
    LET inrange == IF last = 0
                   THEN {u \in Present(S) : u >= first \/ \A v \in Present(S) : v <= u}
                   ELSE {u \in Present(S) : first <= u /\ u <= last}
        sel == IF changedsince < 0 THEN inrange
               ELSE {u \in inrange : S.msgs[u].modseq > changedsince}
    IN [k \in 1..Cardinality(sel) |-> FetchOf(S.msgs, SortedSeq(sel)[k])]

\* the UIDs of the VANISHED (EARLIER) answer to the same command
VanishedSince(S, changedsince) ==
    IF changedsince < 0 THEN {}
    ELSE {v.uid : v \in {w \in S.vanished : w.modseq > changedsince}}

\* ------------------------------------------------------------ initial states

\* StateFile::make_new
BlankState == [uid_validity |-> 0, uid_next |-> 0, highest_mod_seq |-> 0, last_seen_uid |-> 0]

\* the locals of a cycle before it starts
EngIdle(pc, q) ==
    [pc |-> pc, qresync |-> q,
     mailbox |-> [uid_validity |-> 0, uid_next |-> 0, highest_mod_seq |-> 0],
     fetched |-> <<>>, idx |-> 0,
     err |-> FALSE, ret |-> "", lsu |-> 0, modseq |-> -1, todo |-> {}, gone |-> {},
     changed |-> <<>>, new |-> <<>>, refetch |-> {}, purged |-> FALSE, old |-> {}]

Ev(op, uid, id, fail, ok, cmds) ==
    [op |-> op, uid |-> uid, id |-> id, fail |-> fail, ok |-> ok, cmds |-> cmds]
NoEv == Ev("none", 0, 0, "none", TRUE, <<>>)

\* the messages of the channel (SyncMessage) are "Exit", "ImapChanged",
\* "MaildirChanged", "ImapError" and "MaildirError"

\* SyncDir::new: an empty channel and no helper thread. should_idle is the
\* answer of the configuration; idling, erred and ended count the IDLE threads
\* that are in imap.idle(), that have sent ImapError and not yet ImapChanged,
\* and that have sent ImapChanged and are not joined; fsw counts the running
\* watcher threads; dirty says a directory of the Maildir was written and the
\* watcher has not reported it; exit says the supervisor has sent Exit; result
\* is what sync() has returned; failed says a do_sync call has returned Err
NewSyncDir(si) ==
    [should_idle |-> si, chan |-> <<>>, idlethread |-> FALSE, fsthread |-> FALSE,
     idling |-> 0, erred |-> 0, ended |-> 0, fsw |-> 0, dirty |-> FALSE,
     exit |-> FALSE, result |-> "none", failed |-> FALSE]

\* the flag sets external actors give to a message
ExtFlagSets == {{}, {"Seen"}, {"Flagged"}}

EmptySrv(n) ==
    [msgs |-> [u \in UIDs |-> NoMsg], uid_validity |-> 1, uid_next |-> n,
     highest_mod_seq |-> 1, vanished |-> {}]
OneMsgSrv(u, fl) ==
    [EmptySrv(u + 1) EXCEPT !.msgs[u] = [body |-> 1, date |-> 1, flags |-> fl, modseq |-> 1]]
EmptyMdir == [i \in IDs |-> NoFile]
NoRows == [u \in UIDs |-> NoRow]

\* the file save_message_in_maildir leaves for a message with these flags
FileFor(body, fl) ==
    IF "Seen" \in fl
    THEN [body |-> body, flags |-> MaildirFlagsFromImap(fl), innew |-> FALSE]
    ELSE [body |-> body, flags |-> <<>>, innew |-> TRUE]

\* first run: no cache yet; the server and the Maildir hold what they hold
InitFresh(nf) ==
    /\ srv \in {EmptySrv(1)} \cup {OneMsgSrv(1, fl) : fl \in ExtFlagSets}
    /\ mdir \in {EmptyMdir, [EmptyMdir EXCEPT ![1] = [body |-> 2, flags |-> <<>>, innew |-> TRUE]]}
    /\ cache = [rows |-> NoRows, state |-> BlankState]
    /\ hist = [next |-> 0, nfail |-> nf, nextBody |-> 3, extGone |-> {}, both |-> {}]

\* later run: one message that an earlier run has synchronized under the UID
\* cuid; the server holds it under the UID suid in epoch v, and for v = 2 it
\* has numbered the message again while the engine was not running
InitSynced(nf) ==
    /\ \E fl \in {{}, {"Seen"}}, c \in {<<1, 1, 1>>, <<2, 2, 1>>, <<1, 1, 2>>, <<2, 1, 2>>} :
        LET cuid == c[1]
            suid == c[2]
            v == c[3]
        IN /\ srv = [OneMsgSrv(suid, fl) EXCEPT !.uid_validity = v, !.highest_mod_seq = v]
           /\ mdir = [EmptyMdir EXCEPT ![1] = FileFor(1, fl)]
           /\ cache = [rows |-> [NoRows EXCEPT ![cuid] =
                                   MessageMetaNew(1, Size(1), SyncFlagsFromImap(fl), cuid, 1)],
                       state |-> [uid_validity |-> 1, uid_next |-> cuid + 1,
                                  highest_mod_seq |-> 1, last_seen_uid |-> cuid]]
    /\ hist = [next |-> 0, nfail |-> nf, nextBody |-> 2, extGone |-> {}, both |-> {1}]

\* nf is the number of failures that have already happened
InitWith(nf) ==
    /\ InitFresh(nf) \/ InitSynced(nf)
    /\ eng \in {EngIdle("Idle", q) : q \in BOOLEAN}
    /\ ev = NoEv
    /\ life = NewSyncDir(TRUE)

Init == InitWith(0)

\* no call fails in the behaviours that start here
InitQuiet == InitWith(MaxFail)

\* later run after changes on both sides: the message an earlier run has
\* synchronized under UID 2 with the flags r was changed while the engine was
\* not running. c = <<v, s, m, b>>: the server now reports the version v
\* (<<body, date>>) with the flags s, and the file is in cur/ with the flags m
\* and the body b. before remembers what both sides held.
EditedCases ==
    {<<<<1, 1>>, s, m, 1>> : s \in ExtFlagSets, m \in ExtFlagSets}
        \cup {<<v, {}, m, b>> : v \in {<<2, 1>>, <<1, 2>>}, m \in {{}, {"Flagged"}}, b \in {1, 3}}

InitEdited ==
    /\ \E r \in {{}, {"Seen"}}, c \in EditedCases :
        LET v == c[1]
            s == c[2]
            m == c[3]
            b == c[4]
            flagcase == v = <<1, 1>>
        IN /\ IF flagcase THEN s # r /\ m # r ELSE r = {}
           /\ srv = [EmptySrv(3) EXCEPT
                        !.msgs[2] = [body |-> v[1], date |-> v[2], flags |-> s, modseq |-> 2],
                        !.highest_mod_seq = 2]
           /\ mdir = [EmptyMdir EXCEPT ![1] = [body |-> b, flags |-> MaildirFlagsFromImap(m),
                                               innew |-> FALSE]]
           /\ cache = [rows |-> [NoRows EXCEPT ![2] =
                                   MessageMetaNew(1, Size(1), SyncFlagsFromImap(r), 2, 1)],
                       state |-> [uid_validity |-> 1, uid_next |-> 3,
                                  highest_mod_seq |-> 1, last_seen_uid |-> 2]]
           /\ hist = [next |-> 0, nfail |-> 0, nextBody |-> IF flagcase THEN 2 ELSE 4,
                      extGone |-> IF flagcase THEN {} ELSE {1}, both |-> {1},
                      before |-> [refetch |-> ~flagcase, row |-> r, srv |-> s,
                                  file |-> MaildirFlagsFromImap(m), body |-> b]]
    /\ eng \in {EngIdle("Idle", q) : q \in BOOLEAN}
    /\ ev = NoEv
    /\ life = NewSyncDir(TRUE)

\* ------------------------------------------------------------ external actors
\* bodies that both sides have held at the same time, after this step
BothAfter(extra) == hist.both \cup extra \cup (SrvBodies(srv'.msgs) \cap MdirBodies(mdir'))

\* the watcher of fswait sees the writes of this step to the Maildir
Noted == [life EXCEPT !.dirty = @ \/ (life.fsw > 0 /\ mdir' # mdir)]

ExtHist(gone, made) ==
    /\ hist' = [hist EXCEPT !.next = @ + 1,
                            !.nextBody = @ + made,
                            !.extGone = @ \cup gone,
                            !.both = BothAfter({})]
    /\ life' = Noted

CanExt == hist.next < MaxExt
CanMake == hist.nextBody <= MaxBody

\* another client appends a message
ExtSrvAppend ==
    /\ CanExt /\ CanMake
    /\ srv.uid_next <= MaxUid /\ srv.highest_mod_seq < MaxModSeq
    /\ \E fl \in ExtFlagSets : srv' = SrvAppend(srv, hist.nextBody, fl)
    /\ UNCHANGED <<mdir, cache, eng>>
    /\ ev' = NoEv
    /\ ExtHist({}, 1)

\* another client deletes and expunges a message
ExtSrvExpunge ==
    /\ CanExt /\ srv.highest_mod_seq < MaxModSeq
    /\ \E u \in Present(srv) :
        /\ srv' = SrvExpunge([srv EXCEPT !.msgs[u].flags = @ \cup {"Deleted"}], u)
        /\ UNCHANGED <<mdir, cache, eng>>
        /\ ev' = NoEv
        /\ ExtHist({srv.msgs[u].body}, 0)

\* another client changes the flags of a message
ExtSrvFlags ==
    /\ CanExt /\ srv.highest_mod_seq < MaxModSeq
    /\ \E u \in Present(srv), fl \in {"Seen", "Flagged"} :
        /\ srv' = IF fl \in srv.msgs[u].flags
                  THEN SrvStore(srv, u, {}, {fl}) ELSE SrvStore(srv, u, {fl}, {})
        /\ UNCHANGED <<mdir, cache, eng>>
        /\ ev' = NoEv
        /\ ExtHist({}, 0)

\* the server starts a new UIDVALIDITY epoch: the messages are numbered again
ExtUidValidity ==
    /\ CanExt /\ srv.highest_mod_seq < MaxModSeq
    /\ LET old == SortedSeq(Present(srv))
       IN srv' = [srv EXCEPT !.uid_validity = @ + 1,
                             !.uid_next = Len(old) + 1,
                             !.highest_mod_seq = @ + 1,
                             !.vanished = {},
                             !.msgs = [u \in UIDs |-> IF u <= Len(old)
                                                       THEN srv.msgs[old[u]] ELSE NoMsg]]
    /\ UNCHANGED <<mdir, cache, eng>>
    /\ ev' = NoEv
    /\ ExtHist({}, 0)

\* the user drops a file into new/
ExtNewFile ==
    /\ CanExt /\ CanMake /\ FreeIds(Local) # {}
    /\ mdir' = [mdir EXCEPT ![FreshId(Local)] =
                    [body |-> hist.nextBody, flags |-> <<>>, innew |-> TRUE]]
    /\ UNCHANGED <<srv, cache, eng>>
    /\ ev' = NoEv
    /\ ExtHist({}, 1)

\* the user deletes a file
ExtDelFile ==
    /\ CanExt
    /\ \E i \in IDs :
        /\ mdir[i] # NoFile
        /\ mdir' = [mdir EXCEPT ![i] = NoFile]
        /\ UNCHANGED <<srv, cache, eng>>
        /\ ev' = NoEv
        /\ ExtHist({mdir[i].body}, 0)

\* the user edits a file: a new body of another size under the same ID
ExtEditFile ==
    /\ CanExt /\ CanMake
    /\ \E i \in IDs :
        /\ mdir[i] # NoFile
        /\ mdir' = [mdir EXCEPT ![i].body = hist.nextBody]
        /\ UNCHANGED <<srv, cache, eng>>
        /\ ev' = NoEv
        /\ ExtHist({mdir[i].body}, 1)

\* a mail reader changes a flag of a file: the file is then in cur/
ExtFileFlags ==
    /\ CanExt
    /\ \E i \in IDs, k \in {2, 4} :
        /\ mdir[i] # NoFile
        /\ LET old == SyncFlagsFromStr(mdir[i].flags)
               new == [old EXCEPT ![k] = IF @ = NoFlag THEN FlagValue[k] ELSE NoFlag]
           IN mdir' = [mdir EXCEPT ![i].flags = SyncFlagsToString(new), ![i].innew = FALSE]
        /\ UNCHANGED <<srv, cache, eng>>
        /\ ev' = NoEv
        /\ ExtHist({}, 0)

\* ------------------------------------------------- the engine: Server -> Local
CanFail(f) == f = "none" \/ hist.nfail < MaxFail
Fits(r, f) == ~r.stuck /\ (f = "none" \/ r.hit) /\ CanFail(f)
Commit(L) == mdir' = L.mdir /\ cache' = [rows |-> L.rows, state |-> L.st]
EngHist(f, extra) ==
    /\ hist' = [hist EXCEPT !.nfail = IF f = "none" THEN @ ELSE @ + 1,
                            !.both = BothAfter(extra)]
    /\ life' = Noted

\* do_sync that stays where it is when a call has returned an error
FailedStays == eng

\* do_sync leaves the cycle with an error: sync sleeps and calls do_sync again
Failed == EngIdle("Retrying", eng.qresync)

\* do_sync: Imap::new, enable_qresync, select_mailbox
Connect ==
    /\ eng.pc \in {"Idle", "Waiting", "Retrying"}
    /\ \E f \in {"none", "connect"} :
        /\ CanFail(f)
        /\ eng' = IF f = "connect" THEN Failed
                  ELSE [EngIdle(IF eng.qresync THEN "quick" ELSE "slow", eng.qresync)
                          EXCEPT !.mailbox = [uid_validity |-> srv.uid_validity,
                                              uid_next |-> srv.uid_next,
                                              highest_mod_seq |-> srv.highest_mod_seq]]
        /\ ev' = Ev("connect", 0, 0, f, f = "none", <<>>)
        /\ UNCHANGED <<srv, mdir, cache>>
        /\ EngHist(f, {})

\* the Maildir IDs of the rows that delete_imap_cache is called on
KnownIds(known) == {cache.rows[u].id : u \in known}

\* slow_sync_cache_from_imap up to the purge: FETCH 1:last_seen_uid (1:* when
\* it is 0), then delete_imap_cache when the UIDVALIDITY does not match
SlowStart ==
    /\ eng.pc = "slow"
    /\ \E f \in {"none", "fetch", "known"} :
        LET lsu == cache.state.last_seen_uid
            \* Imap::fetch_uids rejects a closed range whose end is not above its start
            rangeok == lsu = 0 \/ lsu > 1
            valid == IsValid(cache.state, eng.mailbox)
            known == GetKnownUids(Local)
            ok == rangeok /\ f = "none"
        IN /\ CanFail(f)
           /\ f = "fetch" => rangeok
           /\ f = "known" => rangeok /\ ~valid
           /\ eng' = IF ~ok THEN Failed
                     ELSE [eng EXCEPT !.lsu = lsu, !.ret = "slow_known", !.idx = 1,
                                      !.fetched = FetchUids(srv, 1, lsu, -1),
                                      !.purged = ~valid,
                                      !.todo = IF valid THEN {} ELSE known,
                                      !.old = IF valid THEN {} ELSE KnownIds(known),
                                      !.pc = IF valid \/ known = {}
                                             THEN "cache_uids" ELSE "purge"]
           /\ ev' = Ev("slow_start", 0, 0, IF rangeok THEN f ELSE "range", ok, <<>>)
           /\ UNCHANGED <<srv, mdir, cache>>
           /\ EngHist(f, {})

\* quick_sync_cache_from_imap up to the purge
QuickStart ==
    /\ eng.pc = "quick"
    /\ \E f \in {"none", "known"} :
        LET valid == IsValid(cache.state, eng.mailbox)
            known == GetKnownUids(Local)
        IN /\ CanFail(f)
           /\ f = "known" => ~valid
           /\ eng' = IF f = "known" THEN Failed
                     ELSE [eng EXCEPT !.ret = "quick", !.purged = ~valid,
                                      !.modseq = IF valid THEN cache.state.highest_mod_seq ELSE -1,
                                      !.todo = IF valid THEN {} ELSE known,
                                      !.old = IF valid THEN {} ELSE KnownIds(known),
                                      !.pc = IF valid \/ known = {}
                                             THEN "quick_fetch" ELSE "purge"]
           /\ ev' = Ev("quick_start", 0, 0, f, f = "none", <<>>)
           /\ UNCHANGED <<srv, mdir, cache>>
           /\ EngHist(f, {})

\* delete_imap_cache / remove_uids_from_cache: one UID of the loop; an error
\* is logged and the loop goes on
PurgeStep ==
    /\ eng.pc = "purge"
    /\ \E uid \in eng.todo, f \in DeleteFails :
        LET rest == eng.todo \ {uid}
        IN \E r \in {DeleteMessageFromMaildir(Local, uid, f)} :
           /\ Fits(r, f)
           /\ Commit(r.L)
           /\ eng' = [eng EXCEPT !.todo = rest,
                                 !.pc = CASE rest # {} -> "purge"
                                          [] eng.ret = "quick" -> "quick_fetch"
                                          [] OTHER -> "cache_uids"]
           /\ ev' = Ev("purge", uid, 0, f, r.ok, <<>>)
           /\ UNCHANGED srv
           /\ EngHist(f, {})

\* quick_sync_cache_from_imap: FETCH 1:* with CHANGEDSINCE when the cache is valid
QuickFetch ==
    /\ eng.pc = "quick_fetch"
    /\ \E f \in {"none", "fetch"} :
        /\ CanFail(f)
        /\ eng' = IF f = "fetch" THEN Failed
                  ELSE [eng EXCEPT !.pc = "cache_uids", !.idx = 1,
                                   !.fetched = FetchUids(srv, 1, 0, eng.modseq),
                                   !.todo = VanishedSince(srv, eng.modseq)]
        /\ ev' = Ev("quick_fetch", 0, 0, f, f = "none", <<>>)
        /\ UNCHANGED <<srv, mdir, cache>>
        /\ EngHist(f, {})

\* the ID of the row that a step has inserted for the UID, 0 when it has not
Inserted(L, uid) ==
    IF L.rows[uid] # NoRow /\ (cache.rows[uid] = NoRow \/ cache.rows[uid].id # L.rows[uid].id)
    THEN L.rows[uid].id ELSE 0

\* cache_uids_from_imap that returns the error of a UidResult at once, as with
\* the ? operator: the UidResults after it are not reconciled
CacheUidStops ==
    /\ eng.pc = "cache_uids"
    /\ eng.idx <= Len(eng.fetched)
    /\ \E f \in CacheFails :
        LET uidres == eng.fetched[eng.idx]
        IN \E r \in {CacheOrUpdate(Local, srv.msgs, uidres, f)} :
           /\ Fits(r, f)
           /\ Commit(r.L)
           /\ eng' = IF r.ok THEN [eng EXCEPT !.idx = @ + 1] ELSE Failed
           /\ ev' = Ev("cache_uid", uidres.uid, Inserted(r.L, uidres.uid), f, r.ok, <<>>)
           /\ UNCHANGED srv
           /\ EngHist(f, {})

\* cache_uids_from_imap: one UidResult of the loop; an error is remembered
CacheUid ==
    /\ eng.pc = "cache_uids"
    /\ eng.idx <= Len(eng.fetched)
    /\ \E f \in CacheFails :
        LET uidres == eng.fetched[eng.idx]
        IN \E r \in {CacheOrUpdate(Local, srv.msgs, uidres, f)} :
           /\ Fits(r, f)
           /\ Commit(r.L)
           /\ eng' = [eng EXCEPT !.idx = @ + 1, !.err = @ \/ ~r.ok]
           /\ ev' = Ev("cache_uid", uidres.uid, Inserted(r.L, uidres.uid), f, r.ok, <<>>)
           /\ UNCHANGED srv
           /\ EngHist(f, {})

\* cache_uids_from_imap returns: Err when a row failed, else the caller goes on
CacheEnd ==
    /\ eng.pc = "cache_uids"
    /\ eng.idx > Len(eng.fetched)
    /\ eng' = IF eng.err THEN Failed
              ELSE [eng EXCEPT !.fetched = IF eng.ret = "slow_known" THEN @ ELSE <<>>,
                               !.idx = 0,
                               !.pc = CASE eng.ret = "slow_known" -> "remove_deleted"
                                        [] eng.ret = "slow_new" -> "update_imap_state"
                                        [] OTHER -> IF eng.todo = {}
                                                    THEN "update_imap_state" ELSE "vanished"]
    /\ ev' = Ev("cache_end", 0, 0, "none", ~eng.err, <<>>)
    /\ UNCHANGED <<srv, mdir, cache>>
    /\ EngHist("none", {})

\* remove_imap_deleted_messages that takes every cached UID for deleted
RemoveStartAll ==
    /\ eng.pc = "remove_deleted"
    /\ \E f \in {"none", "known"} :
        LET known == GetKnownUids(Local)
            seen == {eng.fetched[k].uid : k \in 1..Len(eng.fetched)}
        IN /\ CanFail(f)
           /\ eng' = IF f = "known" THEN Failed
                     ELSE [eng EXCEPT !.pc = "remove_loop", !.fetched = <<>>,
                                      !.todo = known,
                                      !.err = seen \ known # {}]
           /\ ev' = Ev("remove_start", 0, 0, f, f = "none", <<>>)
           /\ UNCHANGED <<srv, mdir, cache>>
           /\ EngHist(f, {})

\* remove_imap_deleted_messages: the cached UIDs that the FETCH did not list
RemoveStart ==
    /\ eng.pc = "remove_deleted"
    /\ \E f \in {"none", "known"} :
        LET known == GetKnownUids(Local)
            seen == {eng.fetched[k].uid : k \in 1..Len(eng.fetched)}
        IN /\ CanFail(f)
           /\ eng' = IF f = "known" THEN Failed
                     ELSE [eng EXCEPT !.pc = "remove_loop", !.fetched = <<>>,
                                      !.todo = known \ seen,
                                      !.err = seen \ known # {}]
           /\ ev' = Ev("remove_start", 0, 0, f, f = "none", <<>>)
           /\ UNCHANGED <<srv, mdir, cache>>
           /\ EngHist(f, {})

\* remove_imap_deleted_messages: one UID of the loop; an error is remembered
RemoveStep ==
    /\ eng.pc = "remove_loop"
    /\ \E uid \in eng.todo, f \in DeleteFails :
        \E r \in {DeleteMessageFromMaildir(Local, uid, f)} :
           /\ Fits(r, f)
           /\ Commit(r.L)
           /\ eng' = [eng EXCEPT !.todo = @ \ {uid}, !.err = @ \/ ~r.ok]
           /\ ev' = Ev("remove", uid, 0, f, r.ok, <<>>)
           /\ UNCHANGED srv
           /\ EngHist(f, {})

\* remove_imap_deleted_messages returns, then FETCH last_seen_uid+1:*
SlowNew ==
    /\ eng.pc = "remove_loop"
    /\ eng.todo = {}
    /\ \E f \in {"none", "fetch"} :
        LET ok == ~eng.err /\ f = "none"
        IN /\ CanFail(f)
           /\ f = "fetch" => ~eng.err
           /\ eng' = IF ~ok THEN Failed
                     ELSE [eng EXCEPT !.pc = "cache_uids", !.idx = 1, !.ret = "slow_new",
                                      !.fetched = FetchUids(srv, eng.lsu + 1, 0, -1)]
           /\ ev' = Ev("slow_new", 0, 0, f, ok, <<>>)
           /\ UNCHANGED <<srv, mdir, cache>>
           /\ EngHist(f, {})

\* quick_sync_cache_from_imap: one vanished UID; an error is logged
VanishedStep ==
    /\ eng.pc = "vanished"
    /\ \E f \in DeleteFails :
        LET uid == CHOOSE u \in eng.todo : \A v \in eng.todo : u <= v
            rest == eng.todo \ {uid}
        IN \E r \in {DeleteMessageFromMaildir(Local, uid, f)} :
           /\ Fits(r, f)
           /\ Commit(r.L)
           /\ eng' = [eng EXCEPT !.todo = rest,
                                 !.pc = IF rest = {} THEN "update_imap_state" ELSE "vanished"]
           /\ ev' = Ev("vanished", uid, 0, f, r.ok, <<>>)
           /\ UNCHANGED srv
           /\ EngHist(f, {})

\* StateFile::update_imap that starts the high-water mark again in a new epoch
UpdateImapResets(st, mbox) ==
    [st EXCEPT !.uid_validity = mbox.uid_validity, !.uid_next = mbox.uid_next,
               !.highest_mod_seq = mbox.highest_mod_seq,
               !.last_seen_uid = IF st.uid_validity = mbox.uid_validity THEN @ ELSE 0]

\* StateFile::update_imap with the values of the SELECT; last_seen_uid stays
UpdateImap(st, mbox) ==
    [st EXCEPT !.uid_validity = mbox.uid_validity, !.uid_next = mbox.uid_next,
               !.highest_mod_seq = mbox.highest_mod_seq]

\* do_sync with a slip: the Local -> Server phase is entered also when the state
\* write that ends the Server -> Local phase has failed
UpdateImapStateGoesOn ==
    /\ eng.pc = "update_imap_state"
    /\ \E f \in {"none", "statesave"} :
        /\ CanFail(f)
        /\ cache' = [cache EXCEPT !.state = UpdateImap(@, eng.mailbox)]
        /\ eng' = [eng EXCEPT !.pc = "l2s"]
        /\ ev' = Ev("update_imap_state", 0, 0, f, f = "none", <<>>)
        /\ UNCHANGED <<srv, mdir>>
        /\ EngHist(f, {})

\* the end of both Server -> Local paths: cache.update_imap_state(mailbox)
UpdateImapState ==
    /\ eng.pc = "update_imap_state"
    /\ \E f \in {"none", "statesave"} :
        /\ CanFail(f)
        /\ cache' = [cache EXCEPT !.state = UpdateImap(@, eng.mailbox)]
        /\ eng' = IF f = "statesave" THEN Failed ELSE [eng EXCEPT !.pc = "l2s"]
        /\ ev' = Ev("update_imap_state", 0, 0, f, f = "none", <<>>)
        /\ UNCHANGED <<srv, mdir>>
        /\ EngHist(f, {})

\* ------------------------------------------------- the engine: Local -> Server
\* maildirw.rs meta_equal: same size and same flag string
MetaEqual(file, meta) ==
    Size(file.body) = meta.size /\ file.flags = SyncFlagsToString(meta.flags)

\* Db::get_ids restricted to one ID: the UIDs of the rows that carry it
RowsOfId(L, id) == {u \in UIDs : L.rows[u] # NoRow /\ L.rows[u].id = id}

\* Maildir::get_updates: new/ is listed before cur/
OnDisk(L) ==
    SortedSeq({i \in IDs : L.mdir[i] # NoFile /\ L.mdir[i].innew})
        \o SortedSeq({i \in IDs : L.mdir[i] # NoFile /\ ~L.mdir[i].innew})
GetUpdatesNew(L) == SelectSeq(OnDisk(L), LAMBDA i : RowsOfId(L, i) = {})
GetUpdatesChanged(L) ==
    SelectSeq(OnDisk(L), LAMBDA i :
        /\ RowsOfId(L, i) # {}
        /\ ~MetaEqual(L.mdir[i], L.rows[CHOOSE u \in RowsOfId(L, i) : TRUE]))
\* what get_updates leaves in the map: the rows whose file is not on disk
GetUpdatesGone(L) == {u \in UIDs : L.rows[u] # NoRow /\ L.mdir[L.rows[u].id] = NoFile}

\* sync_cache_from_maildir: cache.get_known_ids and maildir.get_updates
L2SStart ==
    /\ eng.pc = "l2s"
    /\ \E f \in {"none", "knownids", "updates"} :
        /\ CanFail(f)
        /\ eng' = IF f # "none" THEN Failed
                  ELSE [eng EXCEPT !.pc = "l2s_loop",
                                   !.gone = GetUpdatesGone(Local),
                                   !.changed = GetUpdatesChanged(Local),
                                   !.new = GetUpdatesNew(Local),
                                   !.refetch = {}]
        /\ ev' = Ev("l2s_start", 0, 0, f, f = "none", <<>>)
        /\ UNCHANGED <<srv, mdir, cache>>
        /\ EngHist(f, {})

\* the first loop deleting the row whether or not the server delete went through
GoneStepDropsRow ==
    /\ eng.pc = "l2s_loop"
    /\ \E uid \in eng.gone, f \in {"none", "store", "expunge", "cdel"} :
        \E d \in {ImapDeleteUid(srv, uid, f)}, c \in {CacheDeleteUid(Local, uid, f)} :
        LET ok == d.ok /\ c.ok
        IN /\ ~d.stuck /\ CanFail(f)
           /\ f # "none" => d.hit \/ (d.ok /\ c.hit)
           /\ srv' = d.S
           /\ Commit(c.L)
           /\ eng' = IF ok THEN [eng EXCEPT !.gone = @ \ {uid}] ELSE Failed
           /\ ev' = Ev("l2s_gone", uid, cache.rows[uid].id, f, ok, d.cmds)
           /\ EngHist(f, {})

\* first loop: a row without a file is deleted on the server, then in the cache
GoneStep ==
    /\ eng.pc = "l2s_loop"
    /\ \E uid \in eng.gone, f \in {"none", "store", "expunge", "cdel"} :
        \E d \in {ImapDeleteUid(srv, uid, f)}, c \in {CacheDeleteUid(Local, uid, f)} :
        LET ok == d.ok /\ c.ok
        IN /\ ~d.stuck /\ CanFail(f)
           /\ f # "none" => d.hit \/ (d.ok /\ c.hit)
           /\ srv' = d.S
           /\ Commit(IF d.ok THEN c.L ELSE Local)
           /\ eng' = IF ok THEN [eng EXCEPT !.gone = @ \ {uid}] ELSE Failed
           /\ ev' = Ev("l2s_gone", uid, cache.rows[uid].id, f, ok, d.cmds)
           /\ EngHist(f, {})

\* Cache::get_id: the UID of the row that carries the ID, 0 when there is none
UidOfId(L, id) == IF RowsOfId(L, id) = {} THEN 0 ELSE CHOOSE u \in RowsOfId(L, id) : TRUE

Out(S, L, rf, ok, hit, stuck, cmds) ==
    [S |-> S, L |-> L, rf |-> rf, ok |-> ok, hit |-> hit, stuck |-> stuck, cmds |-> cmds]

\* second loop, one changed ID: store the flag changes, replace a changed body
ChangedOutcome(S, L, id, rf, f) ==
    IF f = "getid" THEN Out(S, L, rf, FALSE, TRUE, FALSE, <<>>)
    ELSE IF RowsOfId(L, id) = {} THEN Out(S, L, rf, FALSE, FALSE, FALSE, <<>>)
    ELSE IF L.mdir[id] = NoFile THEN Out(S, L, rf, FALSE, FALSE, FALSE, <<>>)
    ELSE IF f = "mget" THEN Out(S, L, rf, FALSE, TRUE, FALSE, <<>>)
    ELSE
    With([uid \in {UidOfId(L, id)} |->
    With([diff \in {SyncFlagsDiff(SyncFlagsFromStr(SyncFlagsToString(L.rows[uid].flags)),
                       SyncFlagsFromStr(L.mdir[id].flags))} |->
    LET cache_v == L.rows[uid]
        mail_v == L.mdir[id]
        addf == AsImapFlags(diff.add)
        subf == AsImapFlags(diff.sub)
        rf1 == IF addf # {} THEN rf \cup {uid} ELSE rf
        rf2 == IF subf # {} THEN rf1 \cup {uid} ELSE rf1
    IN
    With([a \in {IF addf # {} THEN ImapAddFlags(S, uid, addf, f) ELSE SRes(S, TRUE, FALSE, <<>>)} |->
    IF ~a.ok THEN Out(a.S, L, rf, FALSE, a.hit, a.stuck, a.cmds)
    ELSE
    With([b \in {IF subf # {} THEN ImapRemoveFlags(a.S, uid, subf, f) ELSE SRes(a.S, TRUE, FALSE, <<>>)} |->
    LET c2 == a.cmds \o b.cmds
    IN
    IF ~b.ok THEN Out(b.S, L, rf1, FALSE, b.hit, b.stuck, c2)
    ELSE IF cache_v.size = Size(mail_v.body) THEN Out(b.S, L, rf2, TRUE, FALSE, FALSE, c2)
    ELSE IF f = "read" THEN Out(b.S, L, rf2, FALSE, TRUE, FALSE, c2)
    ELSE
    With([rp \in {ImapReplaceUid(b.S, uid, mail_v.body, f)} |->
    IF ~rp.ok THEN Out(rp.S, L, rf2, FALSE, rp.hit, rp.stuck, c2 \o rp.cmds)
    ELSE
    With([md \in {MaildirDelete(L, id, f)} |->
    IF ~md.ok THEN Out(rp.S, L, rf2, FALSE, md.hit, FALSE, c2 \o rp.cmds)
    ELSE
    With([cd \in {CacheDeleteUid(md.L, uid, f)} |->
    IF ~cd.ok THEN Out(rp.S, md.L, rf2, FALSE, cd.hit, FALSE, c2 \o rp.cmds)
    ELSE Out(rp.S, cd.L, rf2 \ {uid}, TRUE, FALSE, FALSE, c2 \o rp.cmds)])])])])])])])

ChangedFails == {"none", "getid", "mget", "addflags", "subflags", "read", "fetchmeta",
                 "append", "store", "expunge", "mdel", "cdel"}

\* the bodies an APPEND of this step has put on the server
Appended(cmds, body) == IF \E k \in 1..Len(cmds) : cmds[k].cmd = "APPEND" THEN {body} ELSE {}

ChangedStep ==
    /\ eng.pc = "l2s_loop" /\ eng.gone = {} /\ eng.changed # <<>>
    /\ \E f \in ChangedFails :
        LET id == Head(eng.changed)
        IN \E r \in {ChangedOutcome(srv, Local, id, eng.refetch, f)} :
           /\ Fits(r, f)
           /\ srv' = r.S
           /\ Commit(r.L)
           /\ eng' = IF r.ok THEN [eng EXCEPT !.changed = Tail(@), !.refetch = r.rf] ELSE Failed
           /\ ev' = Ev("l2s_changed", UidOfId(Local, id), id, f, r.ok, r.cmds)
           /\ EngHist(f, Appended(r.cmds, mdir[id].body))

\* the third loop deleting the file whether or not the APPEND went through
NewOutcomeDeletesAnyway(S, L, id, f) ==
    LET mail_v == L.mdir[id]
        sflags == AsImapFlags(SyncFlagsFromStr(mail_v.flags))
        a == ImapAppend(S, mail_v.body, sflags, f)
        md == MaildirDelete(L, id, f)
    IN IF L.mdir[id] = NoFile THEN Out(S, L, {}, FALSE, FALSE, FALSE, <<>>)
       ELSE IF f \in {"mget", "read"} THEN Out(S, L, {}, FALSE, TRUE, FALSE, <<>>)
       ELSE IF ~a.ok THEN Out(a.S, md.L, {}, FALSE, a.hit, a.stuck, a.cmds)
       ELSE Out(a.S, md.L, {}, md.ok, md.hit, FALSE, a.cmds)

\* third loop, one new ID: APPEND the file, then delete it
NewOutcome(S, L, id, f) ==
    LET mail_v == L.mdir[id]
        sflags == AsImapFlags(SyncFlagsFromStr(mail_v.flags))
        a == ImapAppend(S, mail_v.body, sflags, f)
        md == MaildirDelete(L, id, f)
    IN IF L.mdir[id] = NoFile THEN Out(S, L, {}, FALSE, FALSE, FALSE, <<>>)
       ELSE IF f \in {"mget", "read"} THEN Out(S, L, {}, FALSE, TRUE, FALSE, <<>>)
       ELSE IF ~a.ok THEN Out(a.S, L, {}, FALSE, a.hit, a.stuck, a.cmds)
       ELSE Out(a.S, md.L, {}, md.ok, md.hit, FALSE, a.cmds)

\* the third loop with the error handling of cache_uids_from_imap: an error
\* is remembered and the loop goes on with the next new ID
NewStepGoesOn ==
    /\ eng.pc = "l2s_loop" /\ eng.gone = {} /\ eng.changed = <<>> /\ eng.new # <<>>
    /\ \E f \in {"none", "mget", "read", "append", "mdel"} :
        LET id == Head(eng.new)
        IN \E r \in {NewOutcome(srv, Local, id, f)} :
           /\ Fits(r, f)
           /\ srv' = r.S
           /\ Commit(r.L)
           /\ eng' = [eng EXCEPT !.new = Tail(@), !.err = @ \/ ~r.ok]
           /\ ev' = Ev("l2s_new", 0, id, f, r.ok, r.cmds)
           /\ EngHist(f, Appended(r.cmds, mdir[id].body))

NewStep ==
    /\ eng.pc = "l2s_loop" /\ eng.gone = {} /\ eng.changed = <<>> /\ eng.new # <<>>
    /\ \E f \in {"none", "mget", "read", "append", "mdel"} :
        LET id == Head(eng.new)
        IN \E r \in {NewOutcome(srv, Local, id, f)} :
           /\ Fits(r, f)
           /\ srv' = r.S
           /\ Commit(r.L)
           /\ eng' = IF r.ok THEN [eng EXCEPT !.new = Tail(@)] ELSE Failed
           /\ ev' = Ev("l2s_new", 0, id, f, r.ok, r.cmds)
           /\ EngHist(f, Appended(r.cmds, mdir[id].body))

\* the fourth loop fetching the metadata without passing it to
\* cache_uids_from_imap
RefetchStepFetchOnly ==
    /\ eng.pc = "l2s_loop" /\ eng.gone = {} /\ eng.changed = <<>> /\ eng.new = <<>>
    /\ \E uid \in eng.refetch, f \in CacheFails \cup {"fetchmeta"} :
        \E r \in {IF f = "fetchmeta" THEN Res(Local, FALSE, TRUE)
                  ELSE Res(Local, TRUE, FALSE)} :
           /\ Fits(r, f)
           /\ Commit(r.L)
           /\ eng' = IF r.ok THEN [eng EXCEPT !.refetch = @ \ {uid}] ELSE Failed
           /\ ev' = Ev("l2s_refetch", uid, Inserted(r.L, uid), f, r.ok, <<>>)
           /\ UNCHANGED srv
           /\ EngHist(f, {})

\* fourth loop, one UID of the refetch set: fetch_uid_meta, cache_uids_from_imap
RefetchStep ==
    /\ eng.pc = "l2s_loop" /\ eng.gone = {} /\ eng.changed = <<>> /\ eng.new = <<>>
    /\ \E uid \in eng.refetch, f \in CacheFails \cup {"fetchmeta"} :
        \E r \in {IF f = "fetchmeta" THEN Res(Local, FALSE, TRUE)
                  ELSE IF srv.msgs[uid] = NoMsg THEN Res(Local, TRUE, FALSE)
                  ELSE CacheOrUpdate(Local, srv.msgs, FetchOf(srv.msgs, uid), f)} :
           /\ Fits(r, f)
           /\ Commit(r.L)
           /\ eng' = IF r.ok THEN [eng EXCEPT !.refetch = @ \ {uid}] ELSE Failed
           /\ ev' = Ev("l2s_refetch", uid, Inserted(r.L, uid), f, r.ok, <<>>)
           /\ UNCHANGED srv
           /\ EngHist(f, {})

\* cache.update_maildir_state, then do_sync logs out: the cycle is done
L2SEnd ==
    /\ eng.pc = "l2s_loop" /\ eng.gone = {} /\ eng.changed = <<>> /\ eng.new = <<>>
    /\ eng.refetch = {}
    /\ \E f \in {"none", "statesave", "logout"} :
        /\ CanFail(f)
        /\ eng' = IF f = "none"
                  THEN [EngIdle("Waiting", eng.qresync) EXCEPT !.purged = eng.purged]
                  ELSE Failed
        /\ ev' = Ev("cycle_end", 0, 0, f, f = "none", <<>>)
        /\ UNCHANGED <<srv, mdir, cache>>
        /\ EngHist(f, {})

\* ------------------------------------------------------------ specification
External ==
    \/ ExtSrvAppend \/ ExtSrvExpunge \/ ExtSrvFlags \/ ExtUidValidity
    \/ ExtNewFile \/ ExtDelFile \/ ExtEditFile \/ ExtFileFlags

ServerToLocal ==
    \/ Connect \/ SlowStart \/ QuickStart \/ PurgeStep \/ QuickFetch \/ CacheUid
    \/ CacheEnd \/ RemoveStart \/ RemoveStep \/ SlowNew \/ VanishedStep \/ UpdateImapState

LocalToServer ==
    \/ L2SStart \/ GoneStep \/ ChangedStep \/ NewStep \/ RefetchStep \/ L2SEnd

Next == External \/ ServerToLocal \/ LocalToServer

Spec == Init /\ [][Next]_vars

\* the quiet world: external changes happen only before the engine first
\* connects, no call fails, and the engine keeps running its cycles
Offline == eng.pc = "Idle" /\ External
NextQuiet == Offline \/ ServerToLocal \/ LocalToServer
SpecQuiet == InitQuiet /\ [][NextQuiet]_vars /\ WF_vars(ServerToLocal \/ LocalToServer)

\* the engine starts after both sides have changed the synchronized message
SpecEdited == InitEdited /\ [][Next]_vars

\* ------------------------------------------ the engine around the cycles
\* a message is added to the channel (Sender::send)
Send(m) == [life EXCEPT !.chan = Append(@, m)]
\* a helper thread or the supervisor can take a step that sends a message:
\* sync() has not returned, the channel has room, and the engine has ended a
\* cycle or waits. A cycle does not read the channel, so a message that is sent
\* before or during a cycle is one that is sent when the cycle ends: the helper
\* threads and the supervisor take their steps then
CanSend ==
    /\ life.result = "none"
    /\ eng.pc \in {"Waiting", "Retrying", "recv", "drain"}
    /\ Len(life.chan) < MaxChan

\* sync that returns the Err of do_sync to the thread that joins it
RetryGivesUp ==
    /\ eng.pc = "Retrying"
    /\ eng' = EngIdle("done", eng.qresync)
    /\ life' = [life EXCEPT !.failed = TRUE, !.result = "Err"]
    /\ ev' = NoEv
    /\ UNCHANGED <<srv, mdir, cache, hist>>

\* sync: do_sync has returned Err; elog, sleep 10 s, and do_sync is called again
Retry ==
    /\ eng.pc = "Retrying"
    /\ eng' = EngIdle("Idle", eng.qresync)
    /\ life' = [life EXCEPT !.failed = TRUE]
    /\ ev' = NoEv
    /\ UNCHANGED <<srv, mdir, cache, hist>>

\* do_sync after a cycle that returned Ok on a mailbox that is not idled:
\* break Ok(()), and sync returns Ok(())
SyncOnce ==
    /\ eng.pc = "Waiting" /\ ~life.should_idle
    /\ eng' = EngIdle("done", eng.qresync)
    /\ life' = [life EXCEPT !.result = "Ok"]
    /\ ev' = NoEv
    /\ UNCHANGED <<srv, mdir, cache, hist>>

\* do_sync that arms the helper threads and waits without asking should_idle
ArmAlways ==
    /\ eng.pc = "Waiting"
    /\ \E f \in {"none", "idle"} :
        /\ CanFail(f)
        /\ f = "idle" => ~life.idlethread
        /\ eng' = IF f = "idle" THEN Failed ELSE EngIdle("recv", eng.qresync)
        /\ life' = IF f = "idle" THEN life
                   ELSE [life EXCEPT !.idlethread = TRUE,
                                     !.idling = IF life.idlethread THEN @ ELSE @ + 1,
                                     !.fsthread = TRUE,
                                     !.fsw = IF life.fsthread THEN @ ELSE @ + 1]
        /\ ev' = Ev("arm", 0, 0, f, f = "none", <<>>)
        /\ hist' = [hist EXCEPT !.nfail = IF f = "none" THEN @ ELSE @ + 1]
        /\ UNCHANGED <<srv, mdir, cache>>

\* do_sync that calls idle() after every cycle, whatever idlethread holds
ArmSpawnsAgain ==
    /\ eng.pc = "Waiting" /\ life.should_idle
    /\ \E f \in {"none", "idle"} :
        /\ CanFail(f)
        /\ eng' = IF f = "idle" THEN Failed ELSE EngIdle("recv", eng.qresync)
        /\ life' = IF f = "idle" THEN life
                   ELSE [life EXCEPT !.idlethread = TRUE,
                                     !.idling = @ + 1,
                                     !.fsthread = TRUE,
                                     !.fsw = IF life.fsthread THEN @ ELSE @ + 1]
        /\ ev' = Ev("arm", 0, 0, f, f = "none", <<>>)
        /\ hist' = [hist EXCEPT !.nfail = IF f = "none" THEN @ ELSE @ + 1]
        /\ UNCHANGED <<srv, mdir, cache>>

\* do_sync after a cycle that returned Ok on an idled mailbox: idle() when
\* idlethread is None (it can fail: break Err), fswait() when fsthread is None,
\* then the engine blocks in receiver.recv()
Arm ==
    /\ eng.pc = "Waiting" /\ life.should_idle
    /\ \E f \in {"none", "idle"} :
        /\ CanFail(f)
        /\ f = "idle" => ~life.idlethread
        /\ eng' = IF f = "idle" THEN Failed ELSE EngIdle("recv", eng.qresync)
        /\ life' = IF f = "idle" THEN life
                   ELSE [life EXCEPT !.idlethread = TRUE,
                                     !.idling = IF life.idlethread THEN @ ELSE @ + 1,
                                     !.fsthread = TRUE,
                                     !.fsw = IF life.fsthread THEN @ ELSE @ + 1]
        /\ ev' = Ev("arm", 0, 0, f, f = "none", <<>>)
        /\ hist' = [hist EXCEPT !.nfail = IF f = "none" THEN @ ELSE @ + 1]
        /\ UNCHANGED <<srv, mdir, cache>>

\* the match on a received message: Exit returns Ok(()) from do_sync and from
\* sync; ImapChanged joins the IDLE thread when there is a handle (the join
\* returns when that thread has ended); the other messages are logged
Handle(m) ==
    /\ m = "ImapChanged" /\ life.idlethread => life.ended > 0
    /\ eng' = EngIdle(IF m = "Exit" THEN "done" ELSE "drain", eng.qresync)
    /\ life' = [life EXCEPT !.chan = Tail(@),
                            !.result = IF m = "Exit" THEN "Ok" ELSE @,
                            !.idlethread = IF m = "ImapChanged" THEN FALSE ELSE @,
                            !.ended = IF m = "ImapChanged" /\ life.idlethread
                                      THEN @ - 1 ELSE @]
    /\ ev' = NoEv
    /\ UNCHANGED <<srv, mdir, cache, hist>>

\* receiver.recv(): blocks until the channel holds a message
Recv ==
    /\ eng.pc = "recv"
    /\ life.chan # <<>>
    /\ Handle(Head(life.chan))

\* do_sync that goes back to the top of its loop after the first message
TryRecvNoDrain ==
    /\ eng.pc = "drain"
    /\ eng' = EngIdle("Idle", eng.qresync)
    /\ ev' = NoEv
    /\ UNCHANGED <<srv, mdir, cache, hist, life>>

\* receiver.try_recv() after a message was handled: Empty leaves the inner
\* loop and do_sync goes back to the top of its loop
TryRecv ==
    /\ eng.pc = "drain"
    /\ IF life.chan # <<>> THEN Handle(Head(life.chan))
       ELSE /\ eng' = EngIdle("Idle", eng.qresync)
            /\ ev' = NoEv
            /\ UNCHANGED <<srv, mdir, cache, hist, life>>

\* the IDLE thread that ends after ImapError without sending ImapChanged
IdleReturnsErrorOnly ==
    /\ CanSend
    /\ life.idling > 0
    /\ \E ok \in BOOLEAN :
        life' = IF ok THEN [Send("ImapChanged") EXCEPT !.idling = @ - 1, !.ended = @ + 1]
                ELSE [Send("ImapError") EXCEPT !.idling = @ - 1]
    /\ ev' = NoEv
    /\ UNCHANGED <<srv, mdir, cache, eng, hist>>

\* the IDLE thread: imap.idle() returns, with Ok (then logout and ImapChanged)
\* or with Err (then ImapError)
IdleReturns ==
    /\ CanSend
    /\ life.idling > 0
    /\ \E ok \in BOOLEAN :
        life' = IF ok THEN [Send("ImapChanged") EXCEPT !.idling = @ - 1, !.ended = @ + 1]
                ELSE [Send("ImapError") EXCEPT !.idling = @ - 1, !.erred = @ + 1]
    /\ ev' = NoEv
    /\ UNCHANGED <<srv, mdir, cache, eng, hist>>

\* the IDLE thread after ImapError: logout, ImapChanged, and the thread ends
IdleLogout ==
    /\ CanSend
    /\ life.erred > 0
    /\ life' = [Send("ImapChanged") EXCEPT !.erred = @ - 1, !.ended = @ + 1]
    /\ ev' = NoEv
    /\ UNCHANGED <<srv, mdir, cache, eng, hist>>

\* the watcher thread: the debounced Write event of a directory
FsEvent ==
    /\ CanSend
    /\ life.fsw > 0 /\ life.dirty
    /\ life' = [Send("MaildirChanged") EXCEPT !.dirty = FALSE]
    /\ ev' = NoEv
    /\ UNCHANGED <<srv, mdir, cache, eng, hist>>

\* the watcher thread: rx.recv() returns Err
FsError ==
    /\ CanSend
    /\ life.fsw > 0
    /\ life' = Send("MaildirError")
    /\ ev' = NoEv
    /\ UNCHANGED <<srv, mdir, cache, eng, hist>>

\* main: SHUTDOWN is set and the supervisor thread sends Exit to the engine
SendExit ==
    /\ CanSend
    /\ ~life.exit
    /\ life' = [Send("Exit") EXCEPT !.exit = TRUE]
    /\ ev' = NoEv
    /\ UNCHANGED <<srv, mdir, cache, eng, hist>>

\* the steps of a cycle; the cycle starts at the top of the loop of do_sync
Cycle == eng.pc \notin {"Waiting", "Retrying"} /\ (ServerToLocal \/ LocalToServer)
\* the steps of the engine thread between the cycles
Lifecycle == Retry \/ SyncOnce \/ Arm \/ Recv \/ TryRecv
\* the steps of the helper threads and of the supervisor
Helpers == IdleReturns \/ IdleLogout \/ FsEvent \/ FsError \/ SendExit

\* a mailbox with one message that an earlier run has synchronized under the
\* UID 1 or 2, idled or not
InitLife ==
    /\ \E cuid \in {1, 2} :
        /\ srv = OneMsgSrv(cuid, {})
        /\ mdir = [EmptyMdir EXCEPT ![1] = FileFor(1, {})]
        /\ cache = [rows |-> [NoRows EXCEPT ![cuid] =
                                MessageMetaNew(1, Size(1), SyncFlagsFromImap({}), cuid, 1)],
                    state |-> [uid_validity |-> 1, uid_next |-> cuid + 1,
                               highest_mod_seq |-> 1, last_seen_uid |-> cuid]]
    /\ hist = [next |-> 0, nfail |-> 0, nextBody |-> 2, extGone |-> {}, both |-> {1}]
    /\ eng \in {EngIdle("Idle", q) : q \in BOOLEAN}
    /\ ev = NoEv
    /\ life \in {NewSyncDir(si) : si \in BOOLEAN}

NextLife == Offline \/ Cycle \/ Lifecycle \/ Helpers

\* sync() with its helper threads: the engine thread takes its next step when
\* it is not blocked, and an IDLE thread that has sent ImapError goes on
SpecLife ==
    InitLife /\ [][NextLife]_vars /\ WF_vars(Cycle \/ Lifecycle) /\ WF_vars(IdleLogout)

\* ------------------------------------------------ the engine left to itself
\* imap.idle() returns Ok because the server has reported a change of the
\* mailbox (wait_keepalive_while(stop_on_any) re-issues IDLE on its own and
\* returns on a response only): the server holds changes that the engine has
\* not yet recorded
IdleNotified ==
    /\ srv.highest_mod_seq # cache.state.highest_mod_seq
    /\ IdleReturns
    /\ life'.erred = life.erred

\* any mailbox the engine can meet, synchronized before or not, idled or not
InitCalm ==
    /\ InitFresh(MaxFail) \/ InitSynced(MaxFail)
    /\ eng \in {EngIdle("Idle", q) : q \in BOOLEAN}
    /\ ev = NoEv
    /\ life \in {NewSyncDir(si) : si \in BOOLEAN}

NextCalm == Offline \/ Cycle \/ Lifecycle \/ IdleNotified \/ FsEvent

\* sync() when nothing fails, nobody asks it to exit, and the helper threads
\* report changes only: external changes happen between cycles and are
\* bounded, so that from some point on the engine is left to itself
SpecCalm == InitCalm /\ [][NextCalm]_vars /\ WF_vars(Cycle \/ Lifecycle)



\* ------------------------------------------------ the flag set on its own
\* the conversions of syncflags.rs applied to every flag string and every IMAP
\* flag list of the bounded length, and to the flag sets they give; ev holds
\* the last call, its argument and its result
\* the values a SyncFlags can take: slot i holds NoFlag or the i-th FlagValue
SyncFlagsValues == {[i \in 1..5 |-> IF i \in on THEN FlagValue[i] ELSE NoFlag] : on \in SUBSET (1..5)}

\* the argument of the first call: a flag string or an IMAP flag list
InitFlags ==
    /\ srv = EmptySrv(1) /\ mdir = EmptyMdir
    /\ cache = [rows |-> NoRows, state |-> BlankState]
    /\ eng = EngIdle("Idle", FALSE)
    /\ hist = [next |-> 0, nfail |-> 0, nextBody |-> 1, extGone |-> {}, both |-> {}]
    /\ life = NewSyncDir(FALSE)
    /\ LET MaildirLetters == {"D", "F", "R", "S", "T", "P"}
           ImapFlagNames == {"Seen", "Answered", "Flagged", "Deleted", "Draft", "Recent", "Custom"}
           FlagStrings == UNION {[1..n -> MaildirLetters] : n \in 0..MaxFlags}
           ImapFlagLists == UNION {[1..n -> ImapFlagNames] : n \in 0..MaxFlags}
       IN ev \in {[op |-> "str", str |-> s] : s \in FlagStrings}
                   \cup {[op |-> "list", list |-> l] : l \in ImapFlagLists}

\* SyncFlags::from(&str)
FlagsFromStr ==
    /\ ev.op = "str"
    /\ ev' = [op |-> "from_str", str |-> ev.str, flags |-> SyncFlagsFromStr(ev.str)]
    /\ UNCHANGED <<srv, mdir, cache, eng, hist, life>>

\* SyncFlags::from(&[Flag])
FlagsFromImap ==
    /\ ev.op = "list"
    /\ ev' = [op |-> "from_imap", list |-> ev.list,
              flags |-> SyncFlagsFromImap(RangeOf(ev.list))]
    /\ UNCHANGED <<srv, mdir, cache, eng, hist, life>>

\* to_string of the flag set that the last call has left
FlagsToString ==
    /\ ev.op \in {"from_str", "from_imap"}
    /\ ev' = [op |-> "to_string", flags |-> ev.flags, str |-> SyncFlagsToString(ev.flags)]
    /\ UNCHANGED <<srv, mdir, cache, eng, hist, life>>

\* as_imap_flags of the flag set that the last call has left
FlagsAsImap ==
    /\ ev.op \in {"from_str", "from_imap"}
    /\ ev' = [op |-> "as_imap_flags", flags |-> ev.flags, list |-> AsImapFlags(ev.flags)]
    /\ UNCHANGED <<srv, mdir, cache, eng, hist, life>>

\* diff of the flag set that the last call has left against another one
FlagsDiff ==
    /\ ev.op \in {"from_str", "from_imap"}
    /\ \E other \in SyncFlagsValues :
        ev' = [op |-> "diff", flags |-> ev.flags, other |-> other,
               diff |-> SyncFlagsDiff(ev.flags, other),
               equal |-> FlagsEqual([flags |-> ev.flags], AsImapFlags(other))]
    /\ UNCHANGED <<srv, mdir, cache, eng, hist, life>>

NextFlags == FlagsFromStr \/ FlagsFromImap \/ FlagsToString \/ FlagsAsImap \/ FlagsDiff

SpecFlags == InitFlags /\ [][NextFlags]_vars

\* --------------------------------------------- the cache database on its own
\* The table v1 of db.rs under every sequence of add, update and delete_uid;
\* here cache.rows is the table as a set of rows (uid, size,
\* internal_date_millis, flags, id), the flags being the flag string, and ev
\* holds the last call with its argument and its result.
DbRow(meta) ==
    [uid |-> meta.uid, size |-> meta.size, date |-> meta.date,
     flags |-> SyncFlagsToString(meta.flags), id |-> meta.id]

\* the MessageMeta that a SELECT gives for a row
MetaOfRow(r) == MessageMetaNew(r.id, r.size, SyncFlagsFromStr(r.flags), r.uid, r.date)

DbRes(T, ok) == [T |-> T, ok |-> ok]

\* Db::add on a table whose uid column is not a key
DbAddNoKey(T, meta, f) ==
    IF f = "add" THEN DbRes(T, FALSE) ELSE DbRes(T \cup {DbRow(meta)}, TRUE)

\* Db::add: INSERT; uid is the PRIMARY KEY of the table (init_db)
DbAdd(T, meta, f) ==
    IF f = "add" THEN DbRes(T, FALSE)
    ELSE IF \E r \in T : r.uid = meta.uid THEN DbRes(T, FALSE)
    ELSE DbRes(T \cup {DbRow(meta)}, TRUE)

\* Db::update: UPDATE ... WHERE uid = ?1; the number of rows changed is dropped
DbUpdate(T, meta, f) ==
    IF f = "update" THEN DbRes(T, FALSE)
    ELSE DbRes({IF r.uid = meta.uid THEN DbRow(meta) ELSE r : r \in T}, TRUE)

\* Db::delete_uid that reports a DELETE that has deleted no row
DbDeleteUidStrict(T, uid, f) ==
    IF f = "cdel" THEN DbRes(T, FALSE)
    ELSE IF \A r \in T : r.uid # uid THEN DbRes(T, FALSE)
    ELSE DbRes({r \in T : r.uid # uid}, TRUE)

\* Db::delete_uid: DELETE ... WHERE uid = ?1; the number of rows deleted is dropped
DbDeleteUid(T, uid, f) ==
    IF f = "cdel" THEN DbRes(T, FALSE) ELSE DbRes({r \in T : r.uid # uid}, TRUE)

\* Db::get_uid: the answers query_row can give, none for QueryReturnedNoRows
DbGetUid(T, uid) == {MetaOfRow(r) : r \in {q \in T : q.uid = uid}}

\* Db::get_id: the answers query_row can give, none for QueryReturnedNoRows
DbGetId(T, id) == {MetaOfRow(r) : r \in {q \in T : q.id = id}}

\* the ID that the Maildir has made for a file that it has just stored: no row
\* holds it
DbNextId(T) ==
    LET free == {i \in IDs : \A r \in T : r.id # i}
    IN {i \in free : \A j \in free : i <= j}

InitDb ==
    /\ srv = EmptySrv(1) /\ mdir = EmptyMdir
    /\ cache = [rows |-> {}, state |-> BlankState]
    /\ eng = EngIdle("Idle", FALSE)
    /\ hist = [next |-> 0, nfail |-> 0, nextBody |-> 1, extGone |-> {}, both |-> {}]
    /\ life = NewSyncDir(FALSE)
    /\ ev = NoEv

DbAddCall ==
    /\ hist.next < MaxCalls
    /\ \E id \in DbNextId(cache.rows), size \in {1, 2}, fl \in {{}, {"Seen"}}, uid \in UIDs,
          f \in {"none", "add"} :
        LET meta == MessageMetaNew(id, size, SyncFlagsFromImap(fl), uid, 1) IN
        \E r \in {DbAdd(cache.rows, meta, f)} :
           /\ cache' = [cache EXCEPT !.rows = r.T]
           /\ ev' = [op |-> "add", uid |-> meta.uid, meta |-> meta, fail |-> f, ok |-> r.ok]
    /\ hist' = [hist EXCEPT !.next = @ + 1]
    /\ UNCHANGED <<srv, mdir, eng, life>>

\* update keeps the ID of the row when there is one (MessageMeta::update)
DbUpdateCall ==
    /\ hist.next < MaxCalls
    /\ \E uid \in UIDs, size \in {1, 2}, fl \in {{}, {"Seen"}}, f \in {"none", "update"} :
        LET old == DbGetUid(cache.rows, uid)
            ids == IF old = {} THEN DbNextId(cache.rows) ELSE {m.id : m \in old}
        IN \E id \in ids :
           LET meta == MessageMetaNew(id, size, SyncFlagsFromImap(fl), uid, 1)
           IN \E r \in {DbUpdate(cache.rows, meta, f)} :
              /\ cache' = [cache EXCEPT !.rows = r.T]
              /\ ev' = [op |-> "update", uid |-> meta.uid, meta |-> meta, fail |-> f, ok |-> r.ok]
    /\ hist' = [hist EXCEPT !.next = @ + 1]
    /\ UNCHANGED <<srv, mdir, eng, life>>

DbDeleteCall ==
    /\ hist.next < MaxCalls
    /\ \E uid \in UIDs, f \in {"none", "cdel"} :
        \E r \in {DbDeleteUid(cache.rows, uid, f)} :
           /\ cache' = [cache EXCEPT !.rows = r.T]
           /\ ev' = [op |-> "delete_uid", uid |-> uid, meta |-> [uid |-> uid], fail |-> f, ok |-> r.ok]
    /\ hist' = [hist EXCEPT !.next = @ + 1]
    /\ UNCHANGED <<srv, mdir, eng, life>>

NextDb == DbAddCall \/ DbUpdateCall \/ DbDeleteCall

SpecDb == InitDb /\ [][NextDb]_vars

\* ------------------------------------- Maildir::get_updates on its own
\* The listing of new/ and cur/ is compared with the map of the cache rows by
\* ID, one entry in each step, as the loop of get_updates does.
MaxEntries == 3    \* IDs and UIDs of the files and rows that get_updates is given

\* one turn of the loop of get_updates that leaves an unchanged entry in the map
GetUpdatesEntryKeeps(L, acc) ==
    LET id == Head(acc.list)
        rest == [acc EXCEPT !.list = Tail(@)]
    IN IF id \in DOMAIN acc.map
       THEN IF ~MetaEqual(L.mdir[id], acc.map[id])
            THEN [rest EXCEPT !.changed = Append(@, id),
                              !.map = [j \in DOMAIN acc.map \ {id} |-> acc.map[j]]]
            ELSE rest
       ELSE [rest EXCEPT !.new = Append(@, id)]

\* one turn of the loop of get_updates: the entry at the head of the listing
GetUpdatesEntry(L, acc) ==
    LET id == Head(acc.list)
        rest == [acc EXCEPT !.list = Tail(@)]
        removed == [rest EXCEPT !.map = [j \in DOMAIN acc.map \ {id} |-> acc.map[j]]]
    IN IF id \in DOMAIN acc.map
       THEN IF ~MetaEqual(L.mdir[id], acc.map[id])
            THEN [removed EXCEPT !.changed = Append(@, id)]
            ELSE removed
       ELSE [rest EXCEPT !.new = Append(@, id)]

\* the Maildir and the cache that the call finds: no two rows carry one ID
InitUpdates ==
    /\ srv = EmptySrv(1)
    /\ LET \* files of the listing: one in new/, in cur/ with and without S, two sizes
           UpdFiles ==
               {NoFile, [body |-> 1, flags |-> <<>>, innew |-> TRUE]}
                   \cup {[body |-> b, flags |-> <<"S">>, innew |-> FALSE] : b \in {1, 2}}
                   \cup {[body |-> 1, flags |-> <<>>, innew |-> FALSE]}
       IN \E m \in [1..MaxEntries -> UpdFiles] :
          mdir = [i \in IDs |-> IF i <= MaxEntries THEN m[i] ELSE NoFile]
    /\ LET \* rows of the cache, before their UID is set
           UpdMetas ==
               {MessageMetaNew(i, sz[1], SyncFlagsFromImap(sz[2]), 1, 1) :
                   i \in 1..MaxEntries, sz \in {<<1, {}>>, <<1, {"Seen"}>>, <<2, {"Seen"}>>}}
       IN
       \E r \in [1..MaxEntries -> {NoRow} \cup UpdMetas] :
          /\ \A u, v \in 1..MaxEntries :
                (u # v /\ r[u] # NoRow /\ r[v] # NoRow) => r[u].id # r[v].id
          /\ cache = [rows |-> [u \in UIDs |-> IF u <= MaxEntries /\ r[u] # NoRow
                                                THEN [r[u] EXCEPT !.uid = u] ELSE NoRow],
                      state |-> BlankState]
    /\ eng = EngIdle("Idle", FALSE)
    /\ hist = [next |-> 0, nfail |-> 0, nextBody |-> 1, extGone |-> {}, both |-> {}]
    /\ life = NewSyncDir(FALSE)
    /\ ev = NoEv

\* get_updates is entered with the map of cache.get_known_ids (Db::get_ids:
\* the rows by ID)
GetUpdatesEnter ==
    /\ ev.op = "none"
    /\ ev' = [op |-> "get_updates", list |-> OnDisk(Local),
              map |-> [i \in {cache.rows[u].id : u \in {v \in UIDs : cache.rows[v] # NoRow}} |->
                          cache.rows[UidOfId(Local, i)]],
              new |-> <<>>, changed |-> <<>>]
    /\ UNCHANGED <<srv, mdir, cache, eng, hist, life>>

GetUpdatesTurn ==
    /\ ev.op = "get_updates"
    /\ ev.list # <<>>
    /\ ev' = GetUpdatesEntry(Local, ev)
    /\ UNCHANGED <<srv, mdir, cache, eng, hist, life>>

NextUpdates == GetUpdatesEnter \/ GetUpdatesTurn

SpecUpdates == InitUpdates /\ [][NextUpdates]_vars

\* ------------------------------------------------------------------ claims
\* the bodies that both sides have held, that no external actor has deleted
\* or replaced, and that neither side holds any more
Lost ==
    {b \in hist.both : /\ b \notin hist.extGone
                       /\ b \notin SrvBodies(srv.msgs)
                       /\ b \notin MdirBodies(mdir)}

\* C1: no message is lost when a single call of a cycle fails: a body that the
\* server and the Maildir have both held is, in every reachable state, still
\* held by one of them unless an external actor deleted or replaced it.
C1_NoMessageLost == Lost = {}

\* the server, the cache and the Maildir agree: every message of the server
\* has a row and a file with its size, date and flags, and there is no other
\* row and no other file
Agree(u) ==
    /\ cache.rows[u] # NoRow
    /\ mdir[cache.rows[u].id] # NoFile
    /\ mdir[cache.rows[u].id].body = srv.msgs[u].body
    /\ cache.rows[u].size = Size(srv.msgs[u].body)
    /\ cache.rows[u].date = srv.msgs[u].date
    /\ FlagsEqual(cache.rows[u], srv.msgs[u].flags)
    /\ SyncFlagsFromStr(mdir[cache.rows[u].id].flags) = cache.rows[u].flags

Converged ==
    /\ \A u \in UIDs : IF srv.msgs[u] # NoMsg THEN Agree(u) ELSE cache.rows[u] = NoRow
    /\ \A i \in IDs : mdir[i] # NoFile => RowsOfId(Local, i) # {}

\* C2: convergence: with no external change after the engine has started and
\* no failing call, the cycles reach a state from which the server and the
\* Maildir hold the same messages for good, with cache row, server and file
\* agreeing on size, date and flags.
C2_Converges == <>[]Converged

\* the commands of the last step that delete the UID on the server
DeletesOf(uid) ==
    {k \in 1..Len(ev.cmds) :
        /\ ev.cmds[k].uid = uid
        /\ \/ ev.cmds[k].cmd = "EXPUNGE"
           \/ ev.cmds[k].cmd = "STORE+" /\ "Deleted" \in ev.cmds[k].flags}

AppendFailedInReplace == ev.op = "l2s_changed" /\ ev.fail = "append"

\* C3: when the APPEND inside replace_uid fails, no STORE \Deleted and no
\* EXPUNGE is sent for the original UID, the Local -> Server phase ends with
\* the error, and the original UID is still on the server while the edited
\* file and its cache row are still there.
C3_AppendFailureKeepsOriginal ==
    AppendFailedInReplace =>
        /\ ~ev.ok
        /\ eng.pc = "Retrying"
        /\ DeletesOf(ev.uid) = {}
        /\ srv.msgs[ev.uid] # NoMsg
        /\ mdir[ev.id] # NoFile
        /\ cache.rows[ev.uid] # NoRow /\ cache.rows[ev.uid].id = ev.id

C3_Witness ==
    /\ AppendFailedInReplace
    /\ srv.msgs[ev.uid] # NoMsg
    /\ mdir[ev.id] # NoFile /\ Size(mdir[ev.id].body) # cache.rows[ev.uid].size

\* the steps that save a fetched message
SaveOps == {"cache_uid", "l2s_refetch"}

\* C4: when the Maildir store fails or the FETCH answer has no body while a
\* fetched message is saved, cache.add is not called: the step fails, the
\* cache has no row for the UID and last_seen_uid is what it was.
C4_NoRowWhenStoreFails ==
    [][(ev'.op \in SaveOps /\ ev'.fail \in {"save", "nobody"}) =>
            /\ ~ev'.ok
            /\ cache'.rows[ev'.uid] = NoRow
            /\ cache'.state.last_seen_uid = cache.state.last_seen_uid]_vars

C4_Witness ==
    /\ ev.op = "cache_uid" /\ ev.fail = "save" /\ ~ev.ok
    /\ srv.msgs[ev.uid] # NoMsg /\ ev.uid > cache.state.last_seen_uid

\* C5: a cache row is inserted only after the Maildir store that produced its
\* ID: in every step that gives a UID a row with a new ID, the file of that ID
\* did not exist before the step and exists after it, holding the fetched body.
C5_RowAfterStore ==
    [][\A u \in UIDs :
         (/\ cache'.rows[u] # NoRow
          /\ cache.rows[u] = NoRow \/ cache.rows[u].id # cache'.rows[u].id) =>
            /\ mdir[cache'.rows[u].id] = NoFile
            /\ mdir'[cache'.rows[u].id] # NoFile
            /\ mdir'[cache'.rows[u].id].body = srv.msgs[u].body]_vars

C5_Witness ==
    /\ ev.op = "cache_uid" /\ ev.ok /\ ev.id # 0
    /\ cache.rows[ev.uid] # NoRow /\ cache.rows[ev.uid].id = ev.id
    /\ mdir[ev.id] # NoFile

\* the steps that run delete_message_from_maildir for one UID
DelOps == {"purge", "remove", "vanished"}

\* C6: delete_message_from_maildir deletes the Maildir file first and then
\* removes the cache row, also when the Maildir delete failed; without a row
\* for the UID it succeeds and touches neither the Maildir nor the cache; an
\* error of the cache lookup other than "no row" is returned.
C6_DeleteOrder ==
    [][ev'.op \in DelOps =>
         LET uid == ev'.uid
             row == cache.rows[uid]
         IN /\ ev'.fail = "get" => ~ev'.ok /\ mdir' = mdir /\ cache' = cache
            /\ (ev'.fail # "get" /\ row = NoRow) =>
                  ev'.ok /\ mdir' = mdir /\ cache' = cache
            /\ (ev'.fail \in {"none", "mdel"} /\ row # NoRow) =>
                  /\ ev'.ok
                  /\ cache'.rows[uid] = NoRow
                  /\ IF ev'.fail = "mdel" THEN mdir' = mdir ELSE mdir'[row.id] = NoFile
            /\ (ev'.fail = "cdel" /\ row # NoRow) =>
                  ~ev'.ok /\ mdir'[row.id] = NoFile /\ cache'.rows[uid] = row]_vars

C6_Witness ==
    /\ ev.op \in DelOps /\ ev.fail = "mdel" /\ ev.ok
    /\ cache.rows[ev.uid] = NoRow
    /\ \E i \in IDs : mdir[i] # NoFile /\ RowsOfId(Local, i) = {}

\* the cache and the Maildir hold exactly what the server lists
LocalIsServerList ==
    /\ \A u \in UIDs : (cache.rows[u] # NoRow) <=> (srv.msgs[u] # NoMsg)
    /\ \A u \in UIDs : cache.rows[u] # NoRow =>
          /\ mdir[cache.rows[u].id] # NoFile
          /\ mdir[cache.rows[u].id].body = srv.msgs[u].body
    /\ \A i \in IDs : mdir[i] # NoFile => RowsOfId(Local, i) # {}

\* the purge of this cycle is over and no fetched row has been reconciled yet
PurgeDone ==
    /\ eng.purged /\ eng.pc = "cache_uids" /\ eng.idx = 1
    /\ eng.ret \in {"quick", "slow_known"}

\* C7: after a UIDVALIDITY change the next successful cycle leaves no row of
\* the old epoch: when the purge is over every cached UID has lost its row and
\* its file, and when the cycle has ended the cache and the Maildir hold
\* exactly the messages the server lists.
C7_PurgeLeavesServerList ==
    /\ PurgeDone => /\ \A u \in UIDs : cache.rows[u] = NoRow
                    /\ \A i \in eng.old : mdir[i] = NoFile
    /\ (ev.op = "cycle_end" /\ ev.ok /\ eng.purged) => LocalIsServerList

\* C8: a purge caused by a UIDVALIDITY change never deletes a message on the
\* server: the Local -> Server phase of the cycle sends no delete for a UID
\* whose row pointed at a file that the purge was to remove.
C8_PurgeNeverDeletesOnServer ==
    (ev.op = "l2s_gone" /\ eng.purged /\ ev.id \in eng.old) => DeletesOf(ev.uid) = {}

\* the state has been written again after a purge and the new epoch has no row
RewrittenAfterPurge ==
    /\ ev.op = "update_imap_state" /\ ev.ok /\ eng.purged
    /\ \A u \in UIDs : cache.rows[u] = NoRow

\* C9 as stated: after a purge the stored last_seen_uid is 0 once the state
\* has been written again and no message of the new epoch has been inserted.
C9_LastSeenResetByRewrite == RewrittenAfterPurge => cache.state.last_seen_uid = 0

\* C9: the purge and the state rewrite that follows it leave last_seen_uid as
\* it was: neither a purge step nor update_imap_state changes it.
C9_LastSeenKeptByRewrite ==
    [][ev'.op \in {"purge", "update_imap_state"} =>
            cache'.state.last_seen_uid = cache.state.last_seen_uid]_vars

C9_Witness == RewrittenAfterPurge /\ cache.state.last_seen_uid > 0

\* C10: within one UIDVALIDITY epoch last_seen_uid never decreases, whatever
\* the step inserts, updates, deletes or fails to do.
C10_LastSeenMonotone ==
    [][cache'.state.uid_validity = cache.state.uid_validity =>
            cache'.state.last_seen_uid >= cache.state.last_seen_uid]_vars

C10_Witness ==
    /\ ev.op = "cache_uid" /\ ev.ok /\ ev.id # 0
    /\ cache.rows[ev.uid] # NoRow
    /\ ev.uid < cache.state.last_seen_uid

\* C11: last_seen_uid is raised to a UID only by the step that has inserted the
\* cache row of that UID: a step that changes it is a save of that UID which
\* leaves a new row for it, and a save whose download, body, Maildir store or
\* row insert fails leaves last_seen_uid as it was.
C11_RaisedOnlyAfterInsert ==
    [][/\ cache'.state.last_seen_uid # cache.state.last_seen_uid =>
            LET u == cache'.state.last_seen_uid
            IN /\ ev'.op \in SaveOps /\ ev'.uid = u
               /\ cache'.rows[u] # NoRow
               /\ cache.rows[u] = NoRow \/ cache.rows[u].id # cache'.rows[u].id
       /\ (ev'.op \in SaveOps /\ ev'.fail \in {"fetch", "nobody", "save", "add"}) =>
            cache'.state.last_seen_uid = cache.state.last_seen_uid]_vars

C11_Witness ==
    /\ ev.op \in SaveOps /\ ev.fail = "add" /\ ~ev.ok
    /\ cache.rows[ev.uid] = NoRow
    /\ ev.uid > cache.state.last_seen_uid

\* the positions of the Local -> Server phase and the steps it takes
L2SPcs == {"l2s", "l2s_loop"}
L2SOps == {"l2s_start", "l2s_gone", "l2s_changed", "l2s_new", "l2s_refetch", "cycle_end"}

\* C12: the Local -> Server phase starts only after the Server -> Local phase
\* of the same cycle has succeeded, state write included: the phase is entered
\* only by a successful update_imap_state, its steps and every command that
\* changes the server are taken only inside it, and a cycle that has failed
\* takes no further step but the connect of the next cycle.
C12_LocalToServerAfterServerToLocal ==
    [][/\ (eng'.pc \in L2SPcs /\ eng.pc \notin L2SPcs) =>
            eng.pc = "update_imap_state" /\ ev'.op = "update_imap_state" /\ ev'.ok
       /\ ev'.op \in L2SOps => eng.pc \in L2SPcs
       /\ ev'.cmds # <<>> => eng.pc \in L2SPcs
       /\ eng.pc = "Retrying" => ev'.op \in {"connect", "none"}]_vars

C12_Witness ==
    /\ eng.pc = "Retrying" /\ ~ev.ok
    /\ ev.op = "update_imap_state"
    /\ \E i \in IDs : mdir[i] # NoFile /\ RowsOfId(Local, i) = {}

\* the first cycle after the changes has ended well: nothing has failed and no
\* external actor has changed anything since the engine started
FirstCycleDone == ev.op = "cycle_end" /\ ev.ok /\ hist.nfail = 0 /\ hist.next = 0

\* the message, its row and its file carry these flags (fl as a Maildir string)
AllCarry(fl) ==
    /\ srv.msgs[2] # NoMsg /\ MaildirFlagsFromImap(srv.msgs[2].flags) = fl
    /\ cache.rows[2] # NoRow /\ SyncFlagsToString(cache.rows[2].flags) = fl
    /\ mdir[cache.rows[2].id] # NoFile /\ mdir[cache.rows[2].id].flags = fl

\* C13 as stated: flags changed on both sides, size and date unchanged: after
\* the next successful cycle the server, the cache and the file carry the
\* flags the file had before the cycle.
C13_LocalFlagsWin ==
    (FirstCycleDone /\ ~hist.before.refetch) => AllCarry(hist.before.file)

\* C13: flags changed on both sides, size and date unchanged: the server wins;
\* when the first cycle after the changes ends without a failing call, the
\* server, the cache and the file carry the flags the server had before it.
C13_ServerFlagsWin ==
    (FirstCycleDone /\ ~hist.before.refetch) =>
        AllCarry(MaildirFlagsFromImap(hist.before.srv))

C13_Witness ==
    /\ FirstCycleDone /\ ~hist.before.refetch
    /\ hist.before.file # MaildirFlagsFromImap(hist.before.srv)
    /\ hist.before.file # MaildirFlagsFromImap(hist.before.row)
    /\ hist.before.srv # hist.before.row

\* the answer of the FETCH that the engine reconciles next is about a cached
\* UID, differs from its row in size or date, and is still what the server holds
RefetchDue ==
    /\ eng.pc = "cache_uids" /\ eng.idx <= Len(eng.fetched)
    /\ LET uidres == eng.fetched[eng.idx]
       IN /\ cache.rows[uidres.uid] # NoRow
          /\ NeedsRefetch(cache.rows[uidres.uid], uidres)
          /\ srv.msgs[uidres.uid] # NoMsg
          /\ FetchOf(srv.msgs, uidres.uid) = uidres

\* C14: a cached UID for which the server reports another size or date is
\* deleted locally and downloaded again, also when the file was edited: the
\* step that reconciles it removes the old file and leaves a row with a new
\* Maildir ID whose file holds the server's body, and at the end of the cycle
\* the row and the file hold the server's version.
C14_ServerVersionRefetched ==
    [][/\ (RefetchDue /\ ev'.op = "cache_uid" /\ ev'.fail = "none") =>
            LET u == ev'.uid
                old == cache.rows[u].id
                new == cache'.rows[u].id
            IN /\ ev'.ok
               /\ cache'.rows[u] # NoRow
               /\ new # old /\ ev'.id = new
               /\ mdir'[old] = NoFile
               /\ mdir'[new] # NoFile /\ mdir'[new].body = srv.msgs[u].body
               /\ IsEqual(cache'.rows[u], FetchOf(srv.msgs, u))
       /\ (FirstCycleDone /\ hist.before.refetch)' =>
            /\ cache'.rows[2] # NoRow
            /\ IsEqual(cache'.rows[2], FetchOf(srv'.msgs, 2))
            /\ cache'.rows[2].id # 1 /\ mdir'[1] = NoFile
            /\ mdir'[cache'.rows[2].id] # NoFile
            /\ mdir'[cache'.rows[2].id].body = srv'.msgs[2].body]_vars

C14_Witness ==
    /\ FirstCycleDone /\ hist.before.refetch
    /\ hist.before.body = 3 /\ hist.before.file # <<>>
    /\ cache.rows[2] # NoRow /\ cache.rows[2].id # 1

\* the state of the lifecycle that the engine e with the SyncDir l is in: Idle
\* before the first do_sync connects, Waiting while it blocks on the channel or
\* drains it, Retrying after do_sync returned Err, Exiting after sync returned
StateOf(e, l) ==
    CASE l.result # "none" -> "Exiting"
      [] e.pc = "Retrying" -> "Retrying"
      [] e.pc \in {"recv", "drain"} -> "Waiting"
      [] e.pc = "Idle" /\ ~l.failed /\ ~l.fsthread -> "Idle"
      [] OTHER -> "Syncing"

\* the listed transitions; the first connect is a step of Syncing, so a first
\* connect that fails takes Idle through Syncing to Retrying in one step
Listed ==
    {<<"Idle", "Syncing">>, <<"Syncing", "Waiting">>, <<"Syncing", "Exiting">>,
     <<"Syncing", "Retrying">>, <<"Retrying", "Syncing">>, <<"Waiting", "Syncing">>,
     <<"Waiting", "Exiting">>, <<"Idle", "Retrying">>}

C16_ExitReturns == life.exit ~> (life.result # "none")

InWait == eng.pc \in {"recv", "drain"}
\* the messages that are pending in the channel
Pending == {life.chan[k] : k \in 1..Len(life.chan)}

\* C19: the engine that was woken consumes every pending message before the
\* next cycle: in the wait each of its steps takes the message at the head of
\* the channel, it goes back to the top of the loop only when the channel is
\* empty (so no message of the burst is left to start a second cycle), the
\* step that takes Exit returns from sync(), and an Exit anywhere in the
\* channel of a waiting engine leads to the return without a cycle in between.
C19_BurstDrained ==
    /\ [][/\ (InWait /\ eng' # eng) =>
                \/ life.chan = <<>> /\ eng.pc = "drain" /\ eng'.pc = "Idle"
                \/ /\ life.chan # <<>> /\ life'.chan = Tail(life.chan)
                   /\ eng'.pc = IF Head(life.chan) = "Exit" THEN "done" ELSE "drain"
          /\ (InWait /\ "Exit" \in Pending) => eng'.pc \in {"recv", "drain", "done"}
          /\ (eng.pc = "done") => eng' = eng]_vars
    /\ (InWait /\ "Exit" \in Pending) ~> (eng.pc = "done")

\* the engine has taken the first message of a burst and Exit is the next one
C19_Witness == eng.pc = "drain" /\ life.chan = <<"Exit">>

\* the IDLE threads that run: in imap.idle(), or between ImapError and ImapChanged
LiveIdle == life.idling + life.erred

\* C20: the engine has at most one live IDLE thread and at most one watcher
\* thread in every state, whatever cycles have succeeded or failed; the handle
\* idlethread is held exactly while a thread is live or has ended and is not
\* joined; an IDLE thread is spawned only when the one before it has sent
\* ImapChanged, that message was received and the thread was joined.
C20_OneThreadEach ==
    /\ [](/\ LiveIdle <= 1 /\ life.fsw <= 1
          /\ LiveIdle + life.ended = (IF life.idlethread THEN 1 ELSE 0)
          /\ life.fsw = (IF life.fsthread THEN 1 ELSE 0))
    /\ [][/\ life'.idling > life.idling =>
                /\ ~life.idlethread /\ LiveIdle = 0 /\ life.ended = 0
                /\ "ImapChanged" \notin Pending /\ "ImapError" \notin Pending
          /\ life'.fsw > life.fsw => ~life.fsthread /\ life.fsw = 0
          /\ (life.idlethread /\ ~life'.idlethread) =>
                /\ Head(life.chan) = "ImapChanged" /\ InWait
                /\ life.ended = 1 /\ life'.ended = 0]_vars

\* the IDLE thread has ended and the engine has joined it on ImapChanged while
\* the watcher thread stays, after a cycle had failed: the next cycle that
\* returns Ok spawns the next IDLE thread
C20_Witness ==
    /\ eng.pc = "drain" /\ life.failed
    /\ ~life.idlethread /\ LiveIdle = 0 /\ life.ended = 0
    /\ life.fsthread /\ life.fsw = 1

\* C21: in cache_uids_from_imap a failure on one fetched UID does not stop the
\* batch: every step of the loop reconciles the next UidResult of the batch and
\* goes on to the one after it whatever the outcome, remembering a failure; the
\* batch returns only when every UidResult was taken, with one error when a
\* UidResult has failed and with success when none has.
C21_BatchGoesOn ==
    [][/\ ev'.op = "cache_uid" =>
            /\ eng.pc = "cache_uids" /\ eng.idx \in 1..Len(eng.fetched)
            /\ ev'.uid = eng.fetched[eng.idx].uid
            /\ eng'.pc = "cache_uids"
            /\ eng'.fetched = eng.fetched
            /\ eng'.idx = eng.idx + 1
            /\ eng'.err = (eng.err \/ ~ev'.ok)
       /\ (eng.pc # "cache_uids" /\ eng'.pc = "cache_uids") =>
            eng'.idx = 1 /\ ~eng'.err
       /\ ev'.op = "cache_end" =>
            /\ eng.pc = "cache_uids" /\ eng.idx = Len(eng.fetched) + 1
            /\ ev'.ok = ~eng.err
            /\ (eng'.pc = "Retrying") = eng.err]_vars

\* a UidResult is downloaded after an earlier UidResult of the batch has failed
C21_Witness ==
    /\ ev.op = "cache_uid" /\ ev.ok /\ ev.id # 0
    /\ eng.pc = "cache_uids" /\ eng.err
    /\ hist.nfail = 1

\* the steps that process one entry of the Local -> Server phase
L2SEntryOps == {"l2s_gone", "l2s_changed", "l2s_new", "l2s_refetch"}

\* the entries the Local -> Server phase has not yet processed, the entry of
\* the next step included
L2SLeft ==
    Cardinality(eng.gone) + Len(eng.changed) + Len(eng.new) + Cardinality(eng.refetch)

\* C22 as claimed: a failure on one entry of the Local -> Server phase does not
\* stop the batch: when an entry fails while other entries are waiting, the
\* phase stays in its loops and goes on with them.
C22_L2SGoesOn ==
    [][(ev'.op \in L2SEntryOps /\ ~ev'.ok /\ L2SLeft > 1) => eng'.pc = "l2s_loop"]_vars

\* C22 as amended: the Local -> Server phase ends at the first entry that
\* fails: sync_cache_from_maildir returns that error at once, the cycle is
\* over and the entries that were waiting are dropped from its lists; an entry
\* is only ever processed inside the loops, so the waiting entries are taken
\* up by a later cycle. An entry that succeeds leaves the phase in its loops.
C22_L2SStopsAtFirstError ==
    [][ev'.op \in L2SEntryOps =>
         /\ eng.pc = "l2s_loop"
         /\ IF ev'.ok THEN eng'.pc = "l2s_loop"
            ELSE /\ eng'.pc = "Retrying"
                 /\ eng'.gone = {} /\ eng'.changed = <<>> /\ eng'.new = <<>>
                 /\ eng'.refetch = {}]_vars

\* the upload of a new file has failed while another new file was waiting: the
\* cycle is over and the other file is still in the Maildir without a row
C22_Witness ==
    /\ ev.op = "l2s_new" /\ ~ev.ok /\ eng.pc = "Retrying"
    /\ \E i \in IDs : i # ev.id /\ mdir[i] # NoFile /\ RowsOfId(Local, i) = {}

\* the letters of the flag string that are set in the letters given, in the
\* order D, F, R, S, T
Canonical(letters) == SelectSeq(FlagLetter, LAMBDA c : c \in letters)
\* the letters of the IMAP flags that are set in the flags given
LettersOfImap(fl) == {FlagLetter[i] : i \in {j \in 1..5 : ImapFlag[j] \in fl}}

\* C23: the serialization of a flag set round-trips. For every flag string,
\* whatever the order of its letters, the flag set parsed from it is written
\* as its known letters in the order D, F, R, S, T (other letters are dropped)
\* and parsing that string gives the flag set again; for every IMAP flag list,
\* whatever its order, the flag set parsed from it is written as the letters
\* of its known flags in that order (Recent and custom flags are dropped), its
\* IMAP flag list holds the known flags only, and, when it is not empty,
\* parsing that list gives the flag set again.
C23_FlagRoundTrip ==
    /\ ev.op = "from_str" =>
          /\ SyncFlagsToString(ev.flags) = Canonical(RangeOf(ev.str))
          /\ SyncFlagsFromStr(SyncFlagsToString(ev.flags)) = ev.flags
    /\ ev.op = "from_imap" =>
          /\ SyncFlagsToString(ev.flags) = Canonical(LettersOfImap(RangeOf(ev.list)))
          /\ AsImapFlags(ev.flags) = RangeOf(ev.list) \cap RangeOf(ImapFlag)
          /\ SyncFlagsFromStr(SyncFlagsToString(ev.flags)) = ev.flags
          /\ ~SyncFlagsEmpty(ev.flags) => SyncFlagsFromImap(AsImapFlags(ev.flags)) = ev.flags
    /\ ev.op = "to_string" =>
          /\ ev.flags \in SyncFlagsValues
          /\ SyncFlagsFromStr(ev.str) = ev.flags
          /\ ev.str = Canonical(RangeOf(ev.str))
    /\ ev.op = "as_imap_flags" =>
          /\ (ev.list = {}) = SyncFlagsEmpty(ev.flags)
          /\ ev.list # {} => SyncFlagsFromImap(ev.list) = ev.flags

\* a flag string out of order with a letter that is not known, and an IMAP
\* flag list with Recent and a custom flag, have been parsed and written
C23_Witness ==
    \/ /\ ev.op = "from_str" /\ ev.str = <<"T", "P", "S", "D", "F">>
       /\ SyncFlagsToString(ev.flags) = <<"D", "F", "S", "T">>
    \/ /\ ev.op = "as_imap_flags" /\ ev.list = {"Answered", "Deleted", "Seen"}

\* the flags that a flag set holds
FlagsOf(sf) == {sf[i] : i \in 1..5} \ {NoFlag}

\* C24: for all flag sets F and G, with (add, sub) = F.diff(G): F with add
\* put in and sub taken out is G, add holds no flag of F, sub holds flags of F
\* only, and the diff of a flag set against itself has an empty add and an
\* empty sub; flags_equal is true exactly when both are empty.
C24_DiffLaws ==
    ev.op = "diff" =>
        LET F == FlagsOf(ev.flags)
            G == FlagsOf(ev.other)
            add == FlagsOf(ev.diff.add)
            sub == FlagsOf(ev.diff.sub)
        IN /\ (F \cup add) \ sub = G
           /\ add \cap F = {}
           /\ sub \subseteq F
           /\ ev.flags = ev.other =>
                 SyncFlagsEmpty(ev.diff.add) /\ SyncFlagsEmpty(ev.diff.sub)
           /\ ev.equal = (SyncFlagsEmpty(ev.diff.add) /\ SyncFlagsEmpty(ev.diff.sub))
           /\ ev.equal = (F = G)

\* a diff that adds one flag, removes another and keeps a third
C24_Witness ==
    /\ ev.op = "diff"
    /\ FlagsOf(ev.flags) = {"Seen", "Flagged"} /\ FlagsOf(ev.other) = {"Seen", "Replied"}
    /\ FlagsOf(ev.diff.add) = {"Replied"} /\ FlagsOf(ev.diff.sub) = {"Flagged"}

\* C25: the cache database is a bijection between UIDs, Maildir IDs and rows.
\* After add(meta) has succeeded, get_uid(meta.uid) and get_id(meta.id) both
\* give a record equal to meta in all five fields; a call for one UID leaves
\* what get_uid and get_id give for every other row as it was; and in every
\* state no two rows share a UID or a Maildir ID.
C25_InsertLookup ==
    [][LET T == cache.rows
           U == cache'.rows
       IN /\ (ev'.op = "add" /\ ev'.ok) =>
                /\ DbGetUid(U, ev'.meta.uid) = {ev'.meta}
                /\ DbGetId(U, ev'.meta.id) = {ev'.meta}
          /\ \A r \in T : r.uid # ev'.uid =>
                /\ DbGetUid(U, r.uid) = {MetaOfRow(r)}
                /\ DbGetId(U, r.id) = {MetaOfRow(r)}
          /\ \A r \in U, q \in U : r # q => r.uid # q.uid /\ r.id # q.id]_vars

\* two rows are in the table and the one that was added first has outlived an
\* update of the other
C25_Witness ==
    /\ ev.op = "update" /\ ev.ok /\ hist.next = 3
    /\ Cardinality(cache.rows) = 2
    /\ \E r \in cache.rows : r.uid = ev.uid /\ MetaOfRow(r) = ev.meta
    /\ \E r \in cache.rows : r.uid # ev.uid /\ r.flags = <<"S">>

\* cache.add is called for a UID that has a row: the probe of the cache for
\* the UID has failed, so the message is downloaded as a new one and stored
AddOnExisting ==
    /\ ev'.op \in SaveOps /\ ev'.fail = "lookup"
    /\ cache.rows[ev'.uid] # NoRow
    /\ srv.msgs[ev'.uid] # NoMsg

\* C26: add for a UID that already has a cache row fails with an error and
\* leaves the row and last_seen_uid as they were.
C26_AddOnExistingFails ==
    [][AddOnExisting =>
         /\ ~ev'.ok
         /\ cache'.rows = cache.rows
         /\ cache'.state.last_seen_uid = cache.state.last_seen_uid]_vars

\* the add has failed for a UID with a row after the Maildir has stored the
\* downloaded copy
C26_Witness ==
    /\ ev.op = "cache_uid" /\ ev.fail = "lookup" /\ ~ev.ok
    /\ cache.rows[ev.uid] # NoRow /\ srv.msgs[ev.uid] # NoMsg
    /\ \E i \in IDs : /\ i # cache.rows[ev.uid].id
                       /\ mdir[i] # NoFile /\ mdir[i].body = srv.msgs[ev.uid].body
                       /\ RowsOfId(Local, i) = {}

\* C27 as claimed: update overwrites the row whose UID matches, and returns
\* an error and creates no row when no row has that UID.
C27_UpdateFailsIfAbsent ==
    [][ev'.op = "update" =>
         IF DbGetUid(cache.rows, ev'.uid) = {}
         THEN ~ev'.ok /\ cache'.rows = cache.rows
         ELSE ev'.ok => DbGetUid(cache'.rows, ev'.uid) = {ev'.meta}]_vars

\* C28: deleting from the cache is idempotent. delete_uid succeeds whether or
\* not the UID has a row, leaves no row for the UID and leaves every other row
\* as it was; a second delete_uid for the same UID, and a delete_uid for a UID
\* without a row, succeed as well and change nothing.
C28_DeleteIdempotent ==
    [][(ev'.op = "delete_uid" /\ ev'.fail = "none") =>
         LET T == cache.rows
             U == cache'.rows
         IN /\ ev'.ok
            /\ DbGetUid(U, ev'.uid) = {}
            /\ \A r \in T : r.uid # ev'.uid => r \in U
            /\ U \subseteq T
            /\ DbGetUid(T, ev'.uid) = {} => U = T
            /\ DbDeleteUid(U, ev'.uid, "none") = DbRes(U, TRUE)
            /\ (ev.op = "delete_uid" /\ ev.ok /\ ev.uid = ev'.uid) => U = T]_vars

\* the second of two delete_uid calls for the same UID, next to the row of
\* another UID
C28_Witness ==
    /\ ev.op = "delete_uid" /\ ev.ok /\ hist.next = 4
    /\ Cardinality(cache.rows) = 1
    /\ \A r \in cache.rows : r.uid # ev.uid

\* C29: get_updates partitions the IDs. When the call has gone through the
\* listing, new holds exactly the IDs on disk that have no cache row, changed
\* holds exactly the IDs on disk whose row differs from the file in size or in
\* flag string, and the map holds exactly the rows whose ID is not on disk; no
\* ID is in two of the three and an unchanged ID on disk is in none.
C29_Disk == {i \in IDs : mdir[i] # NoFile}
C29_Cached == {cache.rows[u].id : u \in {v \in UIDs : cache.rows[v] # NoRow}}
C29_RowOf(i) == cache.rows[CHOOSE u \in UIDs : cache.rows[u] # NoRow /\ cache.rows[u].id = i]
C29_Differs(i) ==
    \/ Size(mdir[i].body) # C29_RowOf(i).size
    \/ mdir[i].flags # SyncFlagsToString(C29_RowOf(i).flags)
C29_GetUpdatesPartition ==
    (ev.op = "get_updates" /\ ev.list = <<>>) =>
        LET new == RangeOf(ev.new)
            changed == RangeOf(ev.changed)
            gone == DOMAIN ev.map
        IN /\ new = C29_Disk \ C29_Cached
           /\ changed = {i \in C29_Disk \cap C29_Cached : C29_Differs(i)}
           /\ gone = C29_Cached \ C29_Disk
           /\ \A i \in gone : ev.map[i] = C29_RowOf(i)
           /\ Len(ev.new) = Cardinality(new) /\ Len(ev.changed) = Cardinality(changed)
           /\ new \cap changed = {} /\ new \cap gone = {} /\ changed \cap gone = {}
           /\ \A i \in C29_Disk \cap C29_Cached :
                 ~C29_Differs(i) => i \notin new \cup changed \cup gone

\* a new file, a file whose flags differ from its row, and a row without a file
\* in one call, the changed file listed in cur/ after the new one in new/
C29_Witness ==
    /\ ev.op = "get_updates" /\ ev.list = <<>>
    /\ ev.new = <<3>> /\ ev.changed = <<1>> /\ DOMAIN ev.map = {2}
    /\ Size(mdir[1].body) = C29_RowOf(1).size

\* C30: a deletion on the server is carried to the local side on both paths.
\* Slow path: the UIDs taken for deleted are exactly the cached UIDs that the
\* FETCH of the known UIDs did not list, each of them is passed to
\* delete_message_from_maildir before the phase goes on, and a failure is
\* remembered. Quick path: each UID of the drained VANISHED ranges is passed to
\* delete_message_from_maildir before the IMAP state is written, and a failure
\* does not end the phase. On both paths a call that meets no failure removes
\* the row and its file, a call for a UID without a row succeeds and changes
\* nothing, and no row or file of another UID is touched.
C30_ServerDeletionPropagated ==
    [][/\ (ev'.op = "remove_start" /\ ev'.ok) =>
              eng'.todo = {u \in UIDs : cache.rows[u] # NoRow}
                              \ {eng.fetched[k].uid : k \in 1..Len(eng.fetched)}
       /\ ev'.op \in {"remove", "vanished"} =>
              LET uid == ev'.uid
                  had == cache.rows[uid] # NoRow
              IN /\ uid \in eng.todo /\ eng'.todo = eng.todo \ {uid}
                 /\ \A u \in UIDs \ {uid} : cache'.rows[u] = cache.rows[u]
                 /\ \A i \in IDs : (~had \/ i # cache.rows[uid].id) => mdir'[i] = mdir[i]
                 /\ ev'.fail = "none" =>
                       /\ ev'.ok
                       /\ cache'.rows[uid] = NoRow
                       /\ had => mdir'[cache.rows[uid].id] = NoFile
                 /\ (~had /\ ev'.fail = "none") => (mdir' = mdir /\ cache' = cache)
       /\ ev'.op = "remove" =>
              eng'.pc = "remove_loop" /\ eng'.err = (eng.err \/ ~ev'.ok)
       /\ ev'.op = "vanished" =>
              eng'.pc = IF eng'.todo = {} THEN "update_imap_state" ELSE "vanished"
       /\ ev'.op = "slow_new" => (eng.todo = {} /\ (eng.err => ~ev'.ok))
       /\ (ev'.op = "update_imap_state" /\ eng.ret = "quick") => eng.todo = {}
      ]_vars

\* the slow path has deleted the row and the file of a UID that the server no
\* longer has, while another cached UID that the FETCH has listed is kept
C30_Witness ==
    /\ ev.op = "remove" /\ ev.ok /\ ev.fail = "none"
    /\ cache.rows[ev.uid] = NoRow
    /\ srv.msgs[ev.uid] = NoMsg
    /\ \E u \in UIDs : /\ cache.rows[u] # NoRow /\ srv.msgs[u] # NoMsg
                       /\ mdir[cache.rows[u].id] # NoFile
    /\ \A i \in IDs : mdir[i] # NoFile => \E u \in UIDs : cache.rows[u] # NoRow /\ cache.rows[u].id = i

\* C31: a fetched UID whose row differs from the fetch in flags only. The row
\* takes the server's flags and the file is brought to the same flags: moved
\* from new/ to cur/ exactly when the old flags lacked Seen, the new flags have
\* Seen and the file is in new/, and renamed in place otherwise. When the row
\* equals the fetch in UID, size, date and flags, neither the cache rows nor
\* the Maildir change.
C31_Row == cache.rows[ev'.uid]
C31_Fetch == eng.fetched[eng.idx]
C31_SameButFlags ==
    /\ C31_Row.size = C31_Fetch.size /\ C31_Row.date = C31_Fetch.date
    /\ C31_Row.uid = C31_Fetch.uid
C31_FlagsUpdate ==
    [][(/\ ev'.op = "cache_uid" /\ ev'.fail = "none"
        /\ C31_Row # NoRow /\ mdir[C31_Row.id] # NoFile
        /\ C31_SameButFlags) =>
         LET old == C31_Row.flags
             new == SyncFlagsFromImap(C31_Fetch.flags)
             id == C31_Row.id
             moved == /\ "Seen" \notin RangeOf(old) /\ "Seen" \in RangeOf(new)
                      /\ mdir[id].innew
         IN IF old = new
            THEN ev'.ok /\ cache'.rows = cache.rows /\ mdir' = mdir
            ELSE /\ ev'.ok
                 /\ cache'.rows = [cache.rows EXCEPT ![ev'.uid].flags = new]
                 /\ mdir' = [mdir EXCEPT ![id].flags = SyncFlagsToString(new),
                                         ![id].innew = IF moved THEN FALSE ELSE @]]_vars

\* C32: a file whose size differs from its cache row. The step sends APPEND of
\* the file's body with the flags the old UID has on the server at that time,
\* then STORE +FLAGS (\Deleted) and UID EXPUNGE for the old UID, then deletes
\* the file, then the row, and takes the old UID out of the refetch set. A call
\* that fails leaves undone what comes after it. The body is then on the
\* server under a new UID for which the cache has no row.
C32_Stores(cmds, uid, cmd) ==
    UNION {cmds[k].flags : k \in {j \in 1..Len(cmds) :
                                    /\ cmds[j].cmd = cmd /\ cmds[j].uid = uid
                                    /\ \E a \in (j + 1)..Len(cmds) : cmds[a].cmd = "APPEND"}}
C32_ReplaceOrder ==
    [][(/\ ev'.op = "l2s_changed" /\ ev'.uid # 0
        /\ mdir[ev'.id] # NoFile /\ cache.rows[ev'.uid] # NoRow
        /\ Size(mdir[ev'.id].body) # cache.rows[ev'.uid].size) =>
         LET uid == ev'.uid
             id == ev'.id
             cmds == ev'.cmds
             n == Len(cmds)
             new == srv.uid_next
             appended == \E k \in 1..n : cmds[k].cmd = "APPEND"
             F == (srv.msgs[uid].flags \cup C32_Stores(cmds, uid, "STORE+"))
                      \ C32_Stores(cmds, uid, "STORE-")
         IN /\ ev'.ok =>
                 /\ n >= 3
                 /\ cmds[n - 2] = [cmd |-> "APPEND", uid |-> new, flags |-> F]
                 /\ cmds[n - 1] = [cmd |-> "STORE+", uid |-> uid, flags |-> {"Deleted"}]
                 /\ cmds[n] = [cmd |-> "EXPUNGE", uid |-> uid, flags |-> {}]
                 /\ \A k \in 1..(n - 3) : cmds[k].cmd \in {"STORE+", "STORE-"} /\ cmds[k].uid = uid
                 /\ srv'.msgs[new] # NoMsg
                 /\ srv'.msgs[new].body = mdir[id].body
                 /\ srv'.msgs[new].flags = F \ {"Recent"}
                 /\ srv'.msgs[uid] = NoMsg
                 /\ mdir'[id] = NoFile
                 /\ cache'.rows[uid] = NoRow
                 /\ \A u \in UIDs \ {uid} : cache'.rows[u] = cache.rows[u]
                 /\ new # uid
                 /\ eng'.refetch = eng.refetch \ {uid}
            /\ ev'.fail \in {"fetchmeta", "read", "append"} =>
                 /\ ~appended /\ (srv'.msgs[uid] = NoMsg <=> srv.msgs[uid] = NoMsg)
                 /\ mdir' = mdir /\ cache'.rows = cache.rows
            /\ ev'.fail \in {"store", "expunge"} =>
                 /\ appended /\ srv'.msgs[uid] # NoMsg
                 /\ mdir' = mdir /\ cache'.rows = cache.rows
            /\ ev'.fail = "mdel" =>
                 /\ appended /\ srv'.msgs[uid] = NoMsg
                 /\ mdir' = mdir /\ cache'.rows = cache.rows
            /\ ev'.fail = "cdel" =>
                 /\ appended /\ srv'.msgs[uid] = NoMsg
                 /\ mdir'[id] = NoFile /\ cache'.rows = cache.rows]_vars

\* the edited file differed from its row in flags too: the flag was stored
\* first, and the replace has gone through
C32_Witness ==
    /\ ev.op = "l2s_changed" /\ ev.ok /\ ev.fail = "none"
    /\ Len(ev.cmds) = 4 /\ ev.cmds[1].cmd \in {"STORE+", "STORE-"}
    /\ ev.cmds[2].cmd = "APPEND"
    /\ srv.msgs[ev.uid] = NoMsg /\ cache.rows[ev.uid] = NoRow /\ mdir[ev.id] = NoFile
    /\ srv.msgs[ev.cmds[2].uid] # NoMsg

\* the IMAP flags named by the letters of a file's flag suffix
C33_SuffixFlags(id) == {ImapFlag[j] : j \in {k \in 1..5 : FlagLetter[k] \in RangeOf(mdir[id].flags)}}

\* C33: a Maildir file without a cache row is uploaded before it is deleted.
\* A step of the new loop on such a file sends at most one command, an APPEND
\* of the file's body with the flags of its filename suffix; the file is
\* deleted only after the APPEND has succeeded (a failed read or APPEND leaves
\* server and file as they were, a failed delete leaves the file beside the
\* uploaded copy); no step of the Local -> Server loops on new files writes a
\* cache row; and a row without a predecessor is only ever written by
\* cache_message_for_uid while UIDs fetched from the server are cached.
C33_NewUploadedFirst ==
    [][/\ (ev'.op = "l2s_new" /\ mdir[ev'.id] # NoFile /\ RowsOfId(Local, ev'.id) = {}) =>
            LET id == ev'.id
                new == srv.uid_next
                app == <<[cmd |-> "APPEND", uid |-> new, flags |-> C33_SuffixFlags(id)]>>
                uploaded == /\ srv'.msgs[new] # NoMsg
                            /\ srv'.msgs[new].body = mdir[id].body
                            /\ srv'.msgs[new].flags = C33_SuffixFlags(id)
                            /\ \A u \in UIDs \ {new} : srv'.msgs[u] = srv.msgs[u]
            IN /\ cache'.rows = cache.rows
               /\ \A i \in IDs \ {id} : mdir'[i] = mdir[i]
               /\ ev'.ok => ev'.cmds = app /\ uploaded /\ mdir'[id] = NoFile
               /\ mdir'[id] = NoFile => ev'.ok
               /\ ev'.fail \in {"mget", "read", "append"} =>
                      ev'.cmds = <<>> /\ srv'.msgs = srv.msgs /\ mdir' = mdir
               /\ ev'.fail = "mdel" => ev'.cmds = app /\ uploaded /\ mdir' = mdir
       /\ \A u \in UIDs : (cache.rows[u] = NoRow /\ cache'.rows[u] # NoRow) =>
            /\ ev'.op = "cache_uid" /\ ev'.uid = u
            /\ srv.msgs[u] # NoMsg]_vars

\* a flagged new file has been uploaded and deleted: the server holds it with
\* its flags under a UID that has no row
C33_Witness ==
    /\ ev.op = "l2s_new" /\ ev.ok /\ Len(ev.cmds) = 1
    /\ ev.cmds[1].flags # {}
    /\ mdir[ev.id] = NoFile
    /\ srv.msgs[ev.cmds[1].uid] # NoMsg /\ cache.rows[ev.cmds[1].uid] = NoRow

\* C34: a cache row whose file is missing is deleted on the server before it
\* is deleted from the cache. The first loop takes exactly the rows without a
\* file; a step of it that succeeds has sent STORE +FLAGS (\Deleted) and then
\* UID EXPUNGE for the row's UID and nothing else, the server no longer holds
\* the UID and the row is gone; the row goes only in a step that has sent both
\* commands; a failed STORE or EXPUNGE keeps every row and ends the cycle with
\* the row still without a file, so that the next get_updates lists it again.
C34_GoneDeletedOnServerFirst ==
    [][/\ (ev'.op = "l2s_start" /\ ev'.ok) =>
            eng'.gone = {u \in UIDs : cache.rows[u] # NoRow /\ mdir[cache.rows[u].id] = NoFile}
       /\ (ev'.op = "l2s_gone" /\ cache.rows[ev'.uid] # NoRow) =>
            LET uid == ev'.uid
                sto == [cmd |-> "STORE+", uid |-> uid, flags |-> {"Deleted"}]
                exp == [cmd |-> "EXPUNGE", uid |-> uid, flags |-> {}]
            IN /\ uid \in eng.gone
               /\ \A u \in UIDs \ {uid} : cache'.rows[u] = cache.rows[u]
               /\ mdir' = mdir
               /\ ev'.ok => /\ ev'.cmds = <<sto, exp>>
                            /\ srv'.msgs[uid] = NoMsg
                            /\ cache'.rows[uid] = NoRow
                            /\ eng'.gone = eng.gone \ {uid}
               /\ cache'.rows[uid] = NoRow => ev'.ok
               /\ ev'.fail = "store" => ev'.cmds = <<>> /\ srv'.msgs = srv.msgs
               /\ ev'.fail = "expunge" =>
                      /\ ev'.cmds = <<sto>>
                      /\ srv.msgs[uid] # NoMsg =>
                            srv'.msgs[uid] # NoMsg /\ "Deleted" \in srv'.msgs[uid].flags
               /\ ev'.fail \in {"store", "expunge"} =>
                      /\ cache'.rows = cache.rows
                      /\ eng'.pc = "Retrying"
                      /\ uid \in GetUpdatesGone([rows |-> cache'.rows, mdir |-> mdir',
                                                  st |-> cache'.state])
               /\ ev'.fail = "cdel" =>
                      ev'.cmds = <<sto, exp>> /\ srv'.msgs[uid] = NoMsg /\ cache'.rows = cache.rows]_vars

\* the EXPUNGE of a locally deleted message has failed: the message is still
\* on the server, marked \Deleted, and its row is kept
C34_Witness ==
    /\ ev.op = "l2s_gone" /\ ~ev.ok /\ ev.fail = "expunge"
    /\ cache.rows[ev.uid] # NoRow /\ mdir[cache.rows[ev.uid].id] = NoFile
    /\ srv.msgs[ev.uid] # NoMsg /\ "Deleted" \in srv.msgs[ev.uid].flags
    /\ eng.pc = "Retrying"

\* the UIDs of the messages the engine holds fetched
C35_FetchedUids(e) == {e.fetched[k].uid : k \in 1..Len(e.fetched)}

\* C35: the slow path proceeds for every stored last_seen_uid. When the slow
\* path begins and no call is made to fail, the first FETCH goes through and
\* answers with the server's messages of the range 1:L, L being the stored
\* last_seen_uid (of 1:* when L is 0); and when the known messages have been
\* reconciled and pruned without an error, the second FETCH answers with the
\* messages of L+1:* (the UIDs above L, and the highest UID in use, which n:*
\* always names).
C35_SlowPathProceeds ==
    [][/\ (ev'.op = "slow_start" /\ ev'.fail \notin {"fetch", "known"}) =>
            LET L == cache.state.last_seen_uid
            IN /\ ev'.ok
               /\ C35_FetchedUids(eng') =
                     {u \in Present(srv) : L = 0 \/ u <= L}
       /\ (ev'.op = "slow_new" /\ ev'.fail = "none" /\ ~eng.err) =>
            /\ ev'.ok
            /\ C35_FetchedUids(eng') =
                  {u \in Present(srv) : u > eng.lsu \/ \A v \in Present(srv) : v <= u}]_vars

\* the stored values that update_imap_state writes
C36_Stored(st) == <<st.uid_validity, st.uid_next, st.highest_mod_seq>>

\* the steps of the Server -> Local phase that work on one row
C36_RowOps == {"purge", "cache_uid", "remove", "vanished"}

\* C36: the stored UIDVALIDITY, UIDNEXT and HIGHESTMODSEQ are written only at
\* the end of a Server -> Local phase in which no row has failed. The stored
\* values change only in a successful update_imap_state, and then to the
\* values of the SELECT of this cycle; a step that fails leaves them as they
\* were; and a phase in which a row has failed never comes to the state
\* write: the failure ends the phase or marks it, and a marked phase stays
\* marked until it ends with the error.
C36_StateWrittenAfterCleanPhase ==
    [][/\ C36_Stored(cache'.state) # C36_Stored(cache.state) =>
            /\ ev'.op = "update_imap_state" /\ ev'.ok
            /\ C36_Stored(cache'.state) = C36_Stored(eng.mailbox)
       /\ ~ev'.ok => C36_Stored(cache'.state) = C36_Stored(cache.state)
       /\ (ev'.op \in C36_RowOps /\ ~ev'.ok) => eng'.pc = "Retrying" \/ eng'.err
       /\ eng.err => /\ eng'.pc # "update_imap_state"
                     /\ eng'.pc = "Retrying" \/ eng'.err]_vars

\* the IMAP flags of the letters that the first flag string has and the
\* second has not
C37_Only(a, b) ==
    {ImapFlag[j] : j \in {k \in 1..5 : FlagLetter[k] \in RangeOf(a) \ RangeOf(b)}}

\* one STORE command of a step, none when it has no flags to carry
C37_Store(cmd, uid, flags) ==
    IF flags = {} THEN <<>> ELSE <<[cmd |-> cmd, uid |-> uid, flags |-> flags]>>

\* the step of the changed loop on a file that differs from its row in flags
\* only sends +FLAGS with the flags the file has and the row has not, then
\* -FLAGS with the flags the row has and the file has not, and nothing else;
\* the server's flags change by exactly these, row and file are untouched and
\* the UID is put in the refetch set
C37_Stored ==
    (/\ ev'.op = "l2s_changed" /\ ev'.ok /\ ev'.uid # 0
     /\ cache.rows[ev'.uid] # NoRow /\ mdir[ev'.id] # NoFile
     /\ Size(mdir[ev'.id].body) = cache.rows[ev'.uid].size
     /\ mdir[ev'.id].flags # SyncFlagsToString(cache.rows[ev'.uid].flags)) =>
        LET uid == ev'.uid
            row == SyncFlagsToString(cache.rows[uid].flags)
            add == C37_Only(mdir[ev'.id].flags, row)
            sub == C37_Only(row, mdir[ev'.id].flags)
        IN /\ ev'.cmds = C37_Store("STORE+", uid, add) \o C37_Store("STORE-", uid, sub)
           /\ srv.msgs[uid] # NoMsg =>
                 /\ srv'.msgs[uid] # NoMsg
                 /\ srv'.msgs[uid].flags = (srv.msgs[uid].flags \cup add) \ sub
           /\ uid \in eng'.refetch
           /\ cache'.rows = cache.rows /\ mdir' = mdir

\* the phase ends well only with an empty refetch set, and a UID leaves the
\* set only by its refetch step (or with its row, when the body is replaced)
C37_AllRefetched ==
    /\ (ev'.op = "cycle_end" /\ ev'.ok) => eng.refetch = {}
    /\ \A u \in eng.refetch :
         (u \notin eng'.refetch /\ eng'.pc = "l2s_loop") =>
             \/ ev'.op = "l2s_refetch" /\ ev'.ok /\ ev'.uid = u
             \/ ev'.op = "l2s_changed" /\ ev'.ok /\ ev'.uid = u /\ cache'.rows[u] = NoRow

\* a refetch step that succeeds on a message with row, file and server copy of
\* one size fetches nothing but metadata (body and ID stay) and leaves the
\* row's flags equal to the server's; the file's flags equal them as well,
\* always (strict) or unless the row carried the server's flags already
C37_Refetched(strict) ==
    (/\ ev'.op = "l2s_refetch" /\ ev'.ok
     /\ cache.rows[ev'.uid] # NoRow /\ srv.msgs[ev'.uid] # NoMsg
     /\ mdir[cache.rows[ev'.uid].id] # NoFile
     /\ cache.rows[ev'.uid].size = Size(srv.msgs[ev'.uid].body)) =>
        LET uid == ev'.uid
            id == cache.rows[uid].id
            known == srv.msgs[uid].flags \cap RangeOf(ImapFlag)
        IN /\ srv' = srv
           /\ cache'.rows[uid] # NoRow /\ cache'.rows[uid].id = id
           /\ AsImapFlags(cache'.rows[uid].flags) = known
           /\ mdir'[id] # NoFile /\ mdir'[id].body = mdir[id].body
           /\ \/ mdir'[id].flags = Canonical(LettersOfImap(known))
              \/ /\ ~strict
                 /\ AsImapFlags(cache.rows[uid].flags) = known
                 /\ cache'.rows = cache.rows /\ mdir' = mdir

\* C37 as claimed: after the flag stores and the refetch of a successful
\* Local -> Server phase, the row's flags equal the server's flags and the
\* file's flags.
C37_FlagsAgreeAfterRefetch ==
    [][C37_Stored /\ C37_AllRefetched /\ C37_Refetched(TRUE)]_vars

\* C37 as amended: the flag stores are sent and the UID is refetched as
\* claimed, and the refetch leaves the row's flags equal to the flags the
\* server then reports; the file's flags equal them too, except when the row
\* already carried the flags the server reports (another client has undone the
\* store before the refetch): the refetch then changes nothing and the file
\* keeps its differing flags.
C37_FlagsStoredAndRefetched ==
    [][C37_Stored /\ C37_AllRefetched /\ C37_Refetched(FALSE)]_vars

\* a flag the user has set on a file has been stored on the server and the
\* refetch has brought it into the row: the three agree on it
C37_Witness ==
    /\ ev.op = "l2s_refetch" /\ ev.ok
    /\ cache.rows[ev.uid] # NoRow /\ srv.msgs[ev.uid] # NoMsg
    /\ srv.msgs[ev.uid].flags # {}
    /\ AsImapFlags(cache.rows[ev.uid].flags) = srv.msgs[ev.uid].flags
    /\ mdir[cache.rows[ev.uid].id] # NoFile
    /\ mdir[cache.rows[ev.uid].id].flags = SyncFlagsToString(cache.rows[ev.uid].flags)

\* how many times the message is pending in the channel
C38_Count(m) == Cardinality({k \in 1..Len(life.chan) : life.chan[k] = m})
\* the step has sent this message
C38_Sent(m) == life'.chan = Append(life.chan, m)

\* what an IDLE thread sends: ImapError only when idle() returns, and the
\* thread then still has its ImapChanged to send; ImapChanged as the last thing
\* it does; a thread stops idling only by sending one of the two and stops
\* running only by sending ImapChanged; the engine's receipt of ImapChanged
\* gives up the handle, and only a successful arming takes a handle again, by
\* spawning a thread that idles
C38_Protocol ==
    /\ C38_Sent("ImapError") =>
          /\ life.idling > 0 /\ life'.idling = life.idling - 1
          /\ life'.erred = life.erred + 1 /\ life'.ended = life.ended
    /\ C38_Sent("ImapChanged") =>
          /\ LiveIdle > 0 /\ LiveIdle' = LiveIdle - 1
          /\ life'.ended = life.ended + 1
    /\ life'.idling < life.idling => C38_Sent("ImapError") \/ C38_Sent("ImapChanged")
    /\ LiveIdle' < LiveIdle => C38_Sent("ImapChanged")
    /\ (InWait /\ life.chan # <<>> /\ Head(life.chan) = "ImapChanged"
          /\ life'.chan = Tail(life.chan)) => ~life'.idlethread
    /\ (~life.idlethread /\ life'.idlethread) =>
          /\ ev'.op = "arm" /\ ev'.ok /\ eng.pc = "Waiting" /\ eng'.pc = "recv"
          /\ life'.idling = life.idling + 1
    /\ (ev'.op = "arm" /\ ev'.ok) => life'.idlethread

C39_DownloadNotAChange ==
    [][/\ (/\ ev'.op = "cache_uid" /\ ev'.ok /\ ev'.id # 0
           /\ cache.rows[ev'.uid] = NoRow /\ cache'.rows[ev'.uid] # NoRow
           /\ mdir[ev'.id] = NoFile /\ mdir'[ev'.id] # NoFile) =>
            /\ cache'.rows[ev'.uid].id = ev'.id
            /\ MetaEqual(mdir'[ev'.id], cache'.rows[ev'.uid])
            /\ ev'.id \notin RangeOf(GetUpdatesChanged([rows |-> cache'.rows, mdir |-> mdir',
                                                       st |-> cache'.state]))
       /\ (/\ ev'.op = "l2s_changed" /\ mdir[ev'.id] # NoFile /\ mdir[ev'.id].innew) =>
            \A k \in 1..Len(ev'.cmds) : ev'.cmds[k].cmd \notin {"STORE+", "STORE-"}]_vars

\* the two sides and the cache agree: the server's messages are the rows, each
\* row has its file, equal to the row in size and flags, the row carries the
\* server's size, date and flags, every file has a row, and the cache is of
\* the server's UIDVALIDITY
C40_Reconciled ==
    /\ cache.state.uid_validity = srv.uid_validity
    /\ \A u \in UIDs : srv.msgs[u] # NoMsg <=> cache.rows[u] # NoRow
    /\ \A u \in UIDs : cache.rows[u] # NoRow =>
          /\ mdir[cache.rows[u].id] # NoFile
          /\ MetaEqual(mdir[cache.rows[u].id], cache.rows[u])
          /\ cache.rows[u].size = Size(srv.msgs[u].body)
          /\ cache.rows[u].date = srv.msgs[u].date
          /\ AsImapFlags(cache.rows[u].flags) = srv.msgs[u].flags \cap RangeOf(ImapFlag)
    /\ \A i \in IDs : mdir[i] # NoFile => RowsOfId(Local, i) # {}

\* C40: quiescence. Left to itself (nothing fails, no external change after
\* some point, the helper threads report changes only) the engine runs
\* finitely many further cycles and then stays blocked on its channel (or
\* sync() has returned, for a mailbox that is not idled); and a step of a
\* cycle taken in a reconciled state writes nothing to the server, to the
\* Maildir or to the cache rows.
C40_Quiescence ==
    /\ <>[](eng.pc = "recv" \/ life.result # "none")
    /\ [][(C40_Reconciled /\ ev'.op # "none") =>
             /\ srv' = srv /\ mdir' = mdir /\ cache'.rows = cache.rows
             /\ ev'.cmds = <<>>]_vars

====
